---- MODULE Spec2Model ----
(***************************************************************************)
(* State-machine model of G-DriveXP: the SQLite metadata store             *)
(* (src/src/db/repository.rs), the FUSE handlers                           *)
(* (src/src/fuse/filesystem.rs), the change puller (src/src/sync/syncer.rs)*)
(* and the dirty-scan uploader (src/src/sync/uploader.rs).                 *)
(*                                                                         *)
(* The store is one record `db` with one field per table.  A table is a    *)
(* function from its primary key to the remaining columns, so a primary-   *)
(* key conflict is a key that is already in the DOMAIN.  SQL NULL and      *)
(* Rust's Option are modelled as sets with at most one element.            *)
(***************************************************************************)
EXTENDS Integers, Sequences, FiniteSets, TLC

VARIABLES
    db,         \* the SQLite tables
    blobs,      \* cache_dir/<gdrive_id>: gdrive_id -> bytes of the cache blob
    now,        \* SystemTime::now() in seconds
    remote,     \* the Drive account: remote id -> file
    up,         \* the uploader task: the dirty_files left to process in upload_cycle
    uuids,      \* number of Uuid::new_v4() values drawn so far
    tasks,      \* the store calls in flight on the pool: task -> its position and locals
    hist        \* the last handler calls and their replies (read by the properties)

vars == <<db, blobs, now, remote, up, uuids, tasks, hist>>

-----------------------------------------------------------------------------
(* Bounds of the model *)

MaxOff == 3         \* byte offsets are 0..MaxOff
MaxNow == 2         \* the clock runs over 1..MaxNow
MaxCreates == 1     \* number of create() calls in a behaviour

Offsets == 0..MaxOff

-----------------------------------------------------------------------------
(* Option / NULL *)

None == {}
Some(v) == {v}
IsSome(o) == o # {}
Unwrap(o) == CHOOSE v \in o : TRUE

(* Finite maps *)

Put(f, k, v) == [x \in (DOMAIN f) \cup {k} |-> IF x = k THEN v ELSE f[x]]
Del(f, K) == [x \in (DOMAIN f) \ K |-> f[x]]
EmptyMap == [x \in {} |-> 0]

Max2(a, b) == IF a >= b THEN a ELSE b
Min2(a, b) == IF a <= b THEN a ELSE b

-----------------------------------------------------------------------------
(* file_cache_chunks: PRIMARY KEY (inode, start_offset) -> end_offset *)

\* A replay of the INSERT that forgets OR REPLACE keeps the first row of a key.
add_cached_chunk_keep_first(d, inode, start, end) ==
    IF <<inode, start>> \in DOMAIN d.file_cache_chunks
    THEN d
    ELSE [d EXCEPT !.file_cache_chunks = Put(@, <<inode, start>>, end)]

\* INSERT OR REPLACE INTO file_cache_chunks (inode, start_offset, end_offset)
add_cached_chunk(d, inode, start, end) ==
    [d EXCEPT !.file_cache_chunks = Put(@, <<inode, start>>, end)]

\* SELECT start_offset, end_offset ... WHERE inode = ? AND end_offset >= ?
\*   AND start_offset <= ? ORDER BY start_offset
RECURSIVE SortByStart(_)
SortByStart(S) ==
    IF S = {} THEN <<>>
    ELSE LET m == CHOOSE c \in S : \A o \in S : c[1] <= o[1]
         IN <<m>> \o SortByStart(S \ {m})

\* The same query without the inode filter.
cached_chunks_any_inode(d, inode, requested_start, requested_end) ==
    SortByStart({ <<k[2], d.file_cache_chunks[k]>> : k \in
        { k \in DOMAIN d.file_cache_chunks :
              /\ d.file_cache_chunks[k] >= requested_start
              /\ k[2] <= requested_end } })

cached_chunks(d, inode, requested_start, requested_end) ==
    SortByStart({ <<k[2], d.file_cache_chunks[k]>> : k \in
        { k \in DOMAIN d.file_cache_chunks :
              /\ k[1] = inode
              /\ d.file_cache_chunks[k] >= requested_start
              /\ k[2] <= requested_end } })

\* The for loop of get_missing_ranges: state is (current_pos, missing).
RECURSIVE WalkChunks(_, _, _, _)
WalkChunks(chunks, k, current_pos, missing) ==
    IF k > Len(chunks) THEN <<current_pos, missing>>
    ELSE LET start == chunks[k][1]
             end == chunks[k][2]
             m2 == IF current_pos < start
                   THEN Append(missing, <<current_pos, start - 1>>)
                   ELSE missing
         IN WalkChunks(chunks, k + 1, Max2(current_pos, end + 1), m2)

\* A walk that moves the cursor to end+1 even when that moves it backwards.
RECURSIVE WalkChunksNoMax(_, _, _, _)
WalkChunksNoMax(chunks, k, current_pos, missing) ==
    IF k > Len(chunks) THEN <<current_pos, missing>>
    ELSE LET start == chunks[k][1]
             end == chunks[k][2]
             m2 == IF current_pos < start
                   THEN Append(missing, <<current_pos, start - 1>>)
                   ELSE missing
         IN WalkChunksNoMax(chunks, k + 1, end + 1, m2)

get_missing_ranges_no_max(d, inode, requested_start, requested_end) ==
    LET chunks == cached_chunks(d, inode, requested_start, requested_end)
    IN  IF chunks = <<>> THEN << <<requested_start, requested_end>> >>
        ELSE LET w == WalkChunksNoMax(chunks, 1, requested_start, <<>>)
             IN IF w[1] <= requested_end
                THEN Append(w[2], <<w[1], requested_end>>)
                ELSE w[2]

get_missing_ranges(d, inode, requested_start, requested_end) ==
    LET chunks == cached_chunks(d, inode, requested_start, requested_end)
    IN  IF chunks = <<>> THEN << <<requested_start, requested_end>> >>
        ELSE LET w == WalkChunks(chunks, 1, requested_start, <<>>)
             IN IF w[1] <= requested_end
                THEN Append(w[2], <<w[1], requested_end>>)
                ELSE w[2]

-----------------------------------------------------------------------------
(* The tables right after the schema is installed and the root is ensured *)

RootInode == 1
FolderMime == "application/vnd.google-apps.folder"
PlainMime == "text/plain"
OctetMime == "application/octet-stream"
DocMime == "application/vnd.google-apps.document"

\* ensure_root_exists: inode 1, gdrive_id 'root', size 4096, mode 493 = 0o755.
RootAttrs == [size |-> 4096, mode |-> 493, is_dir |-> TRUE, mime_type |-> Some(FolderMime)]

DbRootOnly ==
    [ inodes            |-> (RootInode :> "root"),
      attrs             |-> (RootInode :> RootAttrs),
      dentry            |-> EmptyMap,
      dentry_deleted    |-> EmptyMap,
      sync_state        |-> EmptyMap,
      file_cache_chunks |-> EmptyMap ]

NoCall == [op |-> "none"]

FileAttrs(size, mime) == [size |-> size, mode |-> 420, is_dir |-> FALSE, mime_type |-> Some(mime)]

-----------------------------------------------------------------------------
(* Metadata store operations (repository.rs).  Each takes the tables `d`   *)
(* and returns the new tables, or a record [err, db] when the statement    *)
(* sequence can fail part-way.                                             *)

\* SELECT child_inode FROM dentry WHERE parent_inode = ? AND name = ?
lookup(d, parent, name) ==
    IF <<parent, name>> \in DOMAIN d.dentry THEN Some(d.dentry[<<parent, name>>]) ELSE None

\* SELECT inode FROM inodes WHERE gdrive_id = ?  (fetch_optional: the first row)
get_inode_by_gdrive_id(d, gdrive_id) ==
    LET rows == {i \in DOMAIN d.inodes : d.inodes[i] = gdrive_id}
    IN  IF rows = {} THEN None
        ELSE Some(CHOOSE i \in rows : \A j \in rows : i <= j)

\* last_insert_rowid() of an INSERT INTO inodes without an explicit rowid
NextRowid(d) ==
    (CHOOSE i \in DOMAIN d.inodes : \A j \in DOMAIN d.inodes : j <= i) + 1

\* get_or_create_inode: [inode, db]
get_or_create_inode(d, gdrive_id) ==
    LET existing == get_inode_by_gdrive_id(d, gdrive_id)
    IN  IF IsSome(existing)
        THEN [inode |-> Unwrap(existing), db |-> d]
        ELSE [inode |-> NextRowid(d),
              db |-> [d EXCEPT !.inodes = Put(@, NextRowid(d), gdrive_id)]]

\* INSERT INTO attrs ... ON CONFLICT(inode) DO UPDATE SET size, mtime, mode, is_dir, mime_type
upsert_file_metadata(d, inode, size, mode, is_dir, mime_type) ==
    [d EXCEPT !.attrs = Put(@, inode,
        [size |-> size, mode |-> mode, is_dir |-> is_dir, mime_type |-> mime_type])]

\* An upsert that ignores the row when (parent_inode, name) is taken.
upsert_dentry_ignore(d, parent_inode, child_inode, name) ==
    IF <<parent_inode, name>> \in DOMAIN d.dentry THEN d
    ELSE [d EXCEPT !.dentry = Put(@, <<parent_inode, name>>, child_inode)]

\* INSERT INTO dentry ... ON CONFLICT(parent_inode, name) DO UPDATE SET child_inode
upsert_dentry(d, parent_inode, child_inode, name) ==
    [d EXCEPT !.dentry = Put(@, <<parent_inode, name>>, child_inode)]

NewSyncState(dirty, deleted_at, remote_md5) ==
    [dirty |-> dirty, deleted_at |-> deleted_at, remote_md5 |-> remote_md5]

\* SELECT remote_md5 FROM sync_state WHERE inode = ?
get_remote_md5(d, inode) ==
    IF inode \in DOMAIN d.sync_state THEN d.sync_state[inode].remote_md5 ELSE None

\* An upsert of remote_md5 that also writes dirty = 0 on conflict.
set_remote_md5_resets_dirty(d, inode, md5) ==
    IF inode \in DOMAIN d.sync_state
    THEN [d EXCEPT !.sync_state[inode].remote_md5 = Some(md5), !.sync_state[inode].dirty = 0]
    ELSE [d EXCEPT !.sync_state = Put(@, inode, NewSyncState(0, None, Some(md5)))]

\* INSERT INTO sync_state (inode, dirty, version, remote_md5) VALUES (?, 0, 0, ?)
\*   ON CONFLICT(inode) DO UPDATE SET remote_md5 = excluded.remote_md5
set_remote_md5(d, inode, md5) ==
    IF inode \in DOMAIN d.sync_state
    THEN [d EXCEPT !.sync_state[inode].remote_md5 = Some(md5)]
    ELSE [d EXCEPT !.sync_state = Put(@, inode, NewSyncState(0, None, Some(md5)))]

\* the keys of the dentry rows of a child
DentryRowsOf(d, inode) == {k \in DOMAIN d.dentry : d.dentry[k] = inode}

\* A soft delete that leaves the dentry rows in place (statement 2 missing).
soft_delete_keeps_dentry(d, gdrive_id, t) ==
    LET found == get_inode_by_gdrive_id(d, gdrive_id)
    IN  IF found = None THEN [err |-> FALSE, ret |-> FALSE, db |-> d]
        ELSE
        LET inode == Unwrap(found)
            rows == DentryRowsOf(d, inode)
        IN  IF Cardinality(rows) > 1 \/ (rows # {} /\ inode \in DOMAIN d.dentry_deleted)
            THEN [err |-> TRUE, ret |-> FALSE, db |-> d]
            ELSE
            LET d1 == IF rows = {} THEN d
                      ELSE LET k == CHOOSE k \in rows : TRUE
                           IN [d EXCEPT !.dentry_deleted = Put(@, inode,
                                  [parent_inode |-> k[1], name |-> k[2], deleted_at |-> t])]
                d3 == IF inode \in DOMAIN d1.sync_state
                      THEN [d1 EXCEPT !.sync_state[inode].deleted_at = Some(t),
                                      !.sync_state[inode].dirty = 1]
                      ELSE [d1 EXCEPT !.sync_state = Put(@, inode, NewSyncState(1, Some(t), None))]
            IN  [err |-> FALSE, ret |-> TRUE, db |-> d3]

\* soft_delete_by_gdrive_id: [err, ret, db].
\*  1. INSERT INTO dentry_deleted ... SELECT ... FROM dentry WHERE child_inode = ?
\*     (PRIMARY KEY (child_inode): the statement fails, and changes nothing, when
\*     it selects two rows or the child already has a tombstone)
\*  2. DELETE FROM dentry WHERE child_inode = ?
\*  3. INSERT INTO sync_state (inode, dirty, version, deleted_at) VALUES (?, 1, 0, ?)
\*     ON CONFLICT(inode) DO UPDATE SET deleted_at = excluded.deleted_at, dirty = 1
soft_delete_by_gdrive_id(d, gdrive_id, t) ==
    LET found == get_inode_by_gdrive_id(d, gdrive_id)
    IN  IF found = None THEN [err |-> FALSE, ret |-> FALSE, db |-> d]
        ELSE
        LET inode == Unwrap(found)
            rows == DentryRowsOf(d, inode)
        IN  IF Cardinality(rows) > 1 \/ (rows # {} /\ inode \in DOMAIN d.dentry_deleted)
            THEN [err |-> TRUE, ret |-> FALSE, db |-> d]
            ELSE
            LET d1 == IF rows = {} THEN d
                      ELSE LET k == CHOOSE k \in rows : TRUE
                           IN [d EXCEPT !.dentry_deleted = Put(@, inode,
                                  [parent_inode |-> k[1], name |-> k[2], deleted_at |-> t])]
                d2 == [d1 EXCEPT !.dentry = Del(@, rows)]
                d3 == IF inode \in DOMAIN d2.sync_state
                      THEN [d2 EXCEPT !.sync_state[inode].deleted_at = Some(t),
                                      !.sync_state[inode].dirty = 1]
                      ELSE [d2 EXCEPT !.sync_state = Put(@, inode, NewSyncState(1, Some(t), None))]
            IN  [err |-> FALSE, ret |-> TRUE, db |-> d3]

\* schema.sql: dentry references inodes by foreign keys (bootstrap.rs, step
\* 3); a row is accepted when its parent and its child have an inodes row
dentry_foreign_keys_hold(d, parent_inode, child_inode) ==
    parent_inode \in DOMAIN d.inodes /\ child_inode \in DOMAIN d.inodes

\* A restore that leaves the tombstone row in place (statement 2 missing).
restore_keeps_tombstone(d, gdrive_id) ==
    LET found == get_inode_by_gdrive_id(d, gdrive_id)
    IN  IF found = None THEN [err |-> FALSE, ret |-> FALSE, db |-> d]
        ELSE
        LET inode == Unwrap(found)
            d1 == IF inode \in DOMAIN d.dentry_deleted
                  THEN LET t == d.dentry_deleted[inode]
                       IN [d EXCEPT !.dentry = Put(@, <<t.parent_inode, t.name>>, inode)]
                  ELSE d
            d3 == IF inode \in DOMAIN d1.sync_state
                  THEN [d1 EXCEPT !.sync_state[inode].deleted_at = None]
                  ELSE d1
        IN  [err |-> FALSE, ret |-> TRUE, db |-> d3]

\* restore_by_gdrive_id: [err, ret, db].
\*  1. INSERT OR REPLACE INTO dentry ... SELECT ... FROM dentry_deleted WHERE child_inode = ?
\*  2. DELETE FROM dentry_deleted WHERE child_inode = ?
\*  3. UPDATE sync_state SET deleted_at = NULL WHERE inode = ?
restore_by_gdrive_id(d, gdrive_id) ==
    LET found == get_inode_by_gdrive_id(d, gdrive_id)
    IN  IF found = None THEN [err |-> FALSE, ret |-> FALSE, db |-> d]
        ELSE IF /\ Unwrap(found) \in DOMAIN d.dentry_deleted
                /\ ~dentry_foreign_keys_hold(d, d.dentry_deleted[Unwrap(found)].parent_inode,
                                             Unwrap(found))
        THEN [err |-> TRUE, ret |-> FALSE, db |-> d]
        ELSE
        LET inode == Unwrap(found)
            d1 == IF inode \in DOMAIN d.dentry_deleted
                  THEN LET t == d.dentry_deleted[inode]
                       IN [d EXCEPT !.dentry = Put(@, <<t.parent_inode, t.name>>, inode)]
                  ELSE d
            d2 == [d1 EXCEPT !.dentry_deleted = Del(@, {inode})]
            d3 == IF inode \in DOMAIN d2.sync_state
                  THEN [d2 EXCEPT !.sync_state[inode].deleted_at = None]
                  ELSE d2
        IN  [err |-> FALSE, ret |-> TRUE, db |-> d3]

\* SELECT COUNT(*) FROM dentry_deleted WHERE child_inode = ?  > 0
has_tombstone(d, gdrive_id) ==
    LET found == get_inode_by_gdrive_id(d, gdrive_id)
    IN  found # None /\ Unwrap(found) \in DOMAIN d.dentry_deleted

\* seconds of a day: grace_days * 24 * 60 * 60
DaySeconds == 24 * 60 * 60

\* schema.sql: the dentry table after the inodes row of `inode` is deleted.
\* dentry references inodes by foreign keys (bootstrap.rs, step 3) and the
\* purge deletes the inodes row of a tombstoned folder: the rows that have the
\* inode as parent or as child go with it.
dentry_after_inode_delete(d, inode) ==
    Del(d.dentry, {k \in DOMAIN d.dentry : k[1] = inode \/ d.dentry[k] = inode})

\* DELETE FROM inodes WHERE inode = ?, with file_cache_chunks declared
\* FOREIGN KEY (inode) REFERENCES inodes(inode) ON DELETE CASCADE
delete_inode_row(d, inode) ==
    [d EXCEPT !.inodes = Del(@, {inode}),
              !.file_cache_chunks = Del(@, {k \in DOMAIN @ : k[1] = inode}),
              !.dentry = dentry_after_inode_delete(d, inode)]

\* A purge that leaves the attrs row of the inode in place.
purge_inode_keeps_attrs(d, inode) ==
    LET d1 == [d EXCEPT !.dentry_deleted = Del(@, {inode})]
        d2 == [d1 EXCEPT !.sync_state = Del(@, {inode})]
    IN  delete_inode_row(d2, inode)

\* purge_expired_tombstones: the four DELETE statements for one inode
purge_inode(d, inode) ==
    LET d1 == [d EXCEPT !.dentry_deleted = Del(@, {inode})]
        d2 == [d1 EXCEPT !.sync_state = Del(@, {inode})]
        d3 == [d2 EXCEPT !.attrs = Del(@, {inode})]
    IN  delete_inode_row(d3, inode)

RECURSIVE PurgeAll(_, _)
PurgeAll(d, inodes_to_purge) ==
    IF inodes_to_purge = {} THEN d
    ELSE LET inode == CHOOSE i \in inodes_to_purge : \A j \in inodes_to_purge : i <= j
         IN  PurgeAll(purge_inode(d, inode), inodes_to_purge \ {inode})

\* A purge that also takes the tombstones written exactly at the cutoff.
purge_expired_tombstones_at_cutoff(d, grace_days, t) ==
    LET cutoff == t - (grace_days * DaySeconds)
        inodes_to_purge == {i \in DOMAIN d.dentry_deleted :
                               d.dentry_deleted[i].deleted_at <= cutoff}
    IN  [ret |-> Cardinality(inodes_to_purge), db |-> PurgeAll(d, inodes_to_purge)]

\* purge_expired_tombstones: [ret, db].
\*  SELECT child_inode FROM dentry_deleted WHERE deleted_at < ?
purge_expired_tombstones(d, grace_days, t) ==
    LET cutoff == t - (grace_days * DaySeconds)
        inodes_to_purge == {i \in DOMAIN d.dentry_deleted :
                               d.dentry_deleted[i].deleted_at < cutoff}
    IN  [ret |-> Cardinality(inodes_to_purge), db |-> PurgeAll(d, inodes_to_purge)]

-----------------------------------------------------------------------------
(* FUSE handlers (filesystem.rs): [errno, db, ...] *)

\* INSERT INTO sync_state (inode, dirty, version, md5_checksum) VALUES (?, 1, 0, NULL)
\*   ON CONFLICT(inode) DO UPDATE SET dirty = 1
mark_dirty(d, inode) ==
    IF inode \in DOMAIN d.sync_state
    THEN [d EXCEPT !.sync_state[inode].dirty = 1]
    ELSE [d EXCEPT !.sync_state = Put(@, inode, NewSyncState(1, None, None))]

\* GDriveFS::create
create(d, parent, name, mode, temp_gdrive_id) ==
    LET r == get_or_create_inode(d, temp_gdrive_id)
        d1 == upsert_file_metadata(r.db, r.inode, 0, mode, FALSE, Some("application/octet-stream"))
        d2 == upsert_dentry(d1, parent, r.inode, name)
        d3 == mark_dirty(d2, r.inode)
    IN  [errno |-> "OK", inode |-> r.inode, db |-> d3]

\* GDriveFS::unlink
unlink(d, parent, name, t) ==
    LET found == lookup(d, parent, name)
    IN  IF found = None THEN [errno |-> "ENOENT", db |-> d]
        ELSE IF Unwrap(found) \notin DOMAIN d.inodes THEN [errno |-> "ENOENT", db |-> d]
        ELSE LET inode == Unwrap(found)
                 sd == soft_delete_by_gdrive_id(d, d.inodes[inode], t)
             IN  IF sd.err THEN [errno |-> "EIO", db |-> sd.db]
                 ELSE [errno |-> "OK", db |-> mark_dirty(sd.db, inode)]

\* A rename that does not remove the source row.
rename_keeps_source(d, parent, name, new_parent, new_name, t) ==
    LET found == lookup(d, parent, name)
    IN  IF found = None THEN [errno |-> "ENOENT", db |-> d]
        ELSE
        LET inode == Unwrap(found)
            existing == lookup(d, new_parent, new_name)
            sd == IF existing # None /\ Unwrap(existing) \in DOMAIN d.inodes
                  THEN soft_delete_by_gdrive_id(d, d.inodes[Unwrap(existing)], t)
                  ELSE [err |-> FALSE, ret |-> FALSE, db |-> d]
        IN  IF sd.err THEN [errno |-> "EIO", db |-> sd.db]
            ELSE LET d3 == upsert_dentry(sd.db, new_parent, inode, new_name)
                 IN  [errno |-> "OK", db |-> mark_dirty(d3, inode)]

\* GDriveFS::rename
rename(d, parent, name, new_parent, new_name, t) ==
    LET found == lookup(d, parent, name)
    IN  IF found = None THEN [errno |-> "ENOENT", db |-> d]
        ELSE
        LET inode == Unwrap(found)
            existing == lookup(d, new_parent, new_name)
            \* if let Ok(Some(existing_inode)) ... if let Ok(gdrive_id) ... soft_delete
            sd == IF existing # None /\ Unwrap(existing) \in DOMAIN d.inodes
                  THEN soft_delete_by_gdrive_id(d, d.inodes[Unwrap(existing)], t)
                  ELSE [err |-> FALSE, ret |-> FALSE, db |-> d]
        IN  IF sd.err THEN [errno |-> "EIO", db |-> sd.db]
            ELSE LET \* DELETE FROM dentry WHERE parent_inode = ? AND name = ?
                     d2 == [sd.db EXCEPT !.dentry = Del(@, {<<parent, name>>})]
                     d3 == upsert_dentry(d2, new_parent, inode, new_name)
                 IN  [errno |-> "OK", db |-> mark_dirty(d3, inode)]

-----------------------------------------------------------------------------
(* The puller (syncer.rs) *)

\* process_change: the loop over file.parents
RECURSIVE UpsertUnderParents(_, _, _, _, _)
UpsertUnderParents(d, parents, k, inode, name) ==
    IF k > Len(parents) THEN d
    ELSE IF parents[k] = "root"
         THEN UpsertUnderParents(upsert_dentry(d, RootInode, inode, name),
                                 parents, k + 1, inode, name)
         ELSE LET r == get_or_create_inode(d, parents[k])
              IN  UpsertUnderParents(upsert_dentry(r.db, r.inode, inode, name),
                                     parents, k + 1, inode, name)

\* BackgroundSyncer::process_change: [err, db]
process_change(d, change, t) ==
    IF change.removed THEN
        LET sd == soft_delete_by_gdrive_id(d, change.file_id, t)
        IN  [err |-> sd.err, db |-> sd.db]
    ELSE IF change.file = None THEN [err |-> FALSE, db |-> d]
    ELSE
    LET file == Unwrap(change.file)
    IN  IF file.trashed THEN
            LET sd == soft_delete_by_gdrive_id(d, change.file_id, t)
            IN  [err |-> sd.err, db |-> sd.db]
        ELSE
        LET restored == IF has_tombstone(d, change.file_id)
                        THEN restore_by_gdrive_id(d, change.file_id)
                        ELSE [err |-> FALSE, ret |-> FALSE, db |-> d]
            d1 == restored.db
            is_dir == (file.mime_type = Some("application/vnd.google-apps.folder"))
            r == get_or_create_inode(d1, change.file_id)
            \* mode 0o755 = 493 for a folder, 0o644 = 420 otherwise
            d2 == upsert_file_metadata(r.db, r.inode, file.size,
                                       IF is_dir THEN 493 ELSE 420, is_dir, file.mime_type)
            d3 == IF file.parents # None
                  THEN UpsertUnderParents(d2, Unwrap(file.parents), 1, r.inode, file.name)
                  ELSE upsert_dentry(d2, RootInode, r.inode, file.name)
            d4 == IF file.md5_checksum # None
                  THEN set_remote_md5(d3, r.inode, Unwrap(file.md5_checksum))
                  ELSE d3
        IN  IF restored.err THEN [err |-> TRUE, db |-> d]
            ELSE [err |-> FALSE, db |-> d4]

-----------------------------------------------------------------------------
(* The Drive account as the client (gdrive/client.rs) reads it: remote id   *)
(* -> [content]; content is None for a folder.  A trashed file keeps its id *)
(* and its content, so trash_file leaves what the client can read as it is. *)

\* md5Checksum of a content
Md5(content) == [md5 |-> content]

\* ids the Drive service hands out for new files, in order
RemoteIds == <<"n1", "n2">>

\* format!("temp_{}", Uuid::new_v4()): one name per uuid drawn
TempNames == <<"temp_1", "temp_2", "temp_3">>

\* gdrive_id.starts_with("temp_")
is_temp(gdrive_id) == \E k \in 1..Len(TempNames) : TempNames[k] = gdrive_id

FreshRemoteId(rm) ==
    LET unused == {k \in 1..Len(RemoteIds) : RemoteIds[k] \notin DOMAIN rm}
    IN  IF unused = {} THEN None
        ELSE Some(RemoteIds[CHOOSE k \in unused : \A j \in unused : k <= j])

RemoteFile(content) == [content |-> content]

\* DriveClient::get_file_md5 on a file the account has: Ok(file.md5_checksum)
get_file_md5(rm, file_id) ==
    IF rm[file_id].content = None THEN None ELSE Some(Md5(Unwrap(rm[file_id].content)))

-----------------------------------------------------------------------------
(* The uploader (uploader.rs).  A handler is the sequence of its effects:   *)
(* `steps` holds the state after each remote call, cache write and SQL      *)
(* statement, so that a task cancelled at an await point leaves the state   *)
(* of a prefix.  `fail` is the number of the remote call that fails (0 when *)
(* none does).                                                              *)

St(d, rm, bl, calls) == [db |-> d, remote |-> rm, blobs |-> bl, calls |-> calls]
Call(name, id, ok) == [call |-> name, id |-> id, ok |-> ok]
\* a create_folder / upload_file call with its arguments
UploadCall(api, id, ok, content, name, parent) ==
    [call |-> api, id |-> id, ok |-> ok, content |-> content, name |-> name, parent |-> parent]

\* SELECT i.inode, i.gdrive_id, s.deleted_at FROM inodes i INNER JOIN sync_state s
\*   ON i.inode = s.inode WHERE s.dirty = 1, as the set of (inode, gdrive_id, is_delete)
get_dirty_files(d) ==
    {<<i, d.inodes[i], d.sync_state[i].deleted_at # None>> :
        i \in {j \in DOMAIN d.inodes \cap DOMAIN d.sync_state : d.sync_state[j].dirty = 1}}

\* the row a "... WHERE child_inode = ? LIMIT 1" returns: the first in key order
FirstDentryRow(d, inode) ==
    LET rows == DentryRowsOf(d, inode)
        parents == {k[1] : k \in rows}
        p == CHOOSE x \in parents : \A y \in parents : x <= y
        names == {k[2] : k \in {r \in rows : r[1] = p}}
    IN  <<p, CHOOSE n \in names : \A m \in names : Len(n) <= Len(m)>>

\* Uploader::get_file_name
get_file_name(d, inode) ==
    IF DentryRowsOf(d, inode) = {} THEN <<"file_", ToString(inode)>>
    ELSE FirstDentryRow(d, inode)[2]

\* Uploader::get_parent_gdrive_id: None when the parent's inodes row is missing
get_parent_gdrive_id(d, inode) ==
    LET parent_inode == IF DentryRowsOf(d, inode) = {} THEN 1
                        ELSE FirstDentryRow(d, inode)[1]
    IN  IF parent_inode = 1 THEN Some("root")
        ELSE IF parent_inode \in DOMAIN d.inodes THEN Some(d.inodes[parent_inode])
        ELSE None

\* UPDATE sync_state SET dirty = 0 WHERE inode = ?
clear_dirty(d, inode) ==
    IF inode \in DOMAIN d.sync_state THEN [d EXCEPT !.sync_state[inode].dirty = 0] ELSE d

\* handle_conflict: format!("{:04}-{:02}-{:02}-{:02}{:02}{:02}", ...) as its six fields
FormatTimestamp(t) ==
    LET days == t \div 86400
        remaining_days == days % 365
        seconds_today == t % 86400
    IN  << 1970 + (days \div 365),
           Min2(remaining_days \div 30, 11) + 1,
           Max2(remaining_days % 30, 1),
           seconds_today \div 3600,
           (seconds_today % 3600) \div 60,
           seconds_today % 60 >>

\* handle_conflict: the name of the conflict copy, split at rfind('.')
ConflictName(original_name, t) ==
    LET dots == {k \in 1..Len(original_name) : original_name[k] = "."}
        tag == <<" (Conflicto local ", FormatTimestamp(t), ")">>
    IN  IF dots # {}
        THEN LET dot_pos == CHOOSE k \in dots : \A j \in dots : j <= k
             IN  SubSeq(original_name, 1, dot_pos - 1) \o tag
                   \o SubSeq(original_name, dot_pos, Len(original_name))
        ELSE original_name \o tag

\* A create path that marks the inode clean without recording the real id.
create_file_keeps_temp_id(d, rm, bl, inode, temp_gdrive_id, fail) ==
    IF inode \notin DOMAIN d.attrs \/ get_parent_gdrive_id(d, inode) = None
    THEN [steps |-> <<>>, ok |-> FALSE]
    ELSE
    LET attrs == d.attrs[inode]
        name == get_file_name(d, inode)
        parent == Unwrap(get_parent_gdrive_id(d, inode))
        new == FreshRemoteId(rm)
        \* tokio::fs::write(&cache_path, b"") when the blob is missing
        bl1 == IF attrs.is_dir \/ temp_gdrive_id \in DOMAIN bl THEN bl
               ELSE Put(bl, temp_gdrive_id, <<>>)
        pre == IF bl1 = bl THEN <<>> ELSE <<St(d, rm, bl1, <<>>)>>
        api == IF attrs.is_dir THEN "create_folder" ELSE "upload_file"
    IN  IF fail = 1 \/ new = None
        THEN [steps |-> pre \o <<St(d, rm, bl1, <<Call(api, temp_gdrive_id, FALSE)>>)>>,
              ok |-> FALSE]
        ELSE
        LET real_gdrive_id == Unwrap(new)
            content == IF attrs.is_dir THEN None ELSE Some(bl1[temp_gdrive_id])
            rm1 == Put(rm, real_gdrive_id, RemoteFile(content))
            c1 == <<UploadCall(api, real_gdrive_id, TRUE, content, name, parent)>>
            d1 == d
            d2 == clear_dirty(d1, inode)
        IN  [steps |-> pre \o <<St(d, rm1, bl1, c1), St(d1, rm1, bl1, c1), St(d2, rm1, bl1, c1)>>,
             ok |-> TRUE]

\* Uploader::create_file
create_file(d, rm, bl, inode, temp_gdrive_id, fail) ==
    IF inode \notin DOMAIN d.attrs \/ get_parent_gdrive_id(d, inode) = None
    THEN [steps |-> <<>>, ok |-> FALSE]
    ELSE
    LET attrs == d.attrs[inode]
        name == get_file_name(d, inode)
        parent == Unwrap(get_parent_gdrive_id(d, inode))
        new == FreshRemoteId(rm)
        \* tokio::fs::write(&cache_path, b"") when the blob is missing
        bl1 == IF attrs.is_dir \/ temp_gdrive_id \in DOMAIN bl THEN bl
               ELSE Put(bl, temp_gdrive_id, <<>>)
        pre == IF bl1 = bl THEN <<>> ELSE <<St(d, rm, bl1, <<>>)>>
        api == IF attrs.is_dir THEN "create_folder" ELSE "upload_file"
    IN  IF fail = 1 \/ new = None
        THEN [steps |-> pre \o <<St(d, rm, bl1, <<Call(api, temp_gdrive_id, FALSE)>>)>>,
              ok |-> FALSE]
        ELSE
        LET real_gdrive_id == Unwrap(new)
            content == IF attrs.is_dir THEN None ELSE Some(bl1[temp_gdrive_id])
            rm1 == Put(rm, real_gdrive_id, RemoteFile(content))
            c1 == <<UploadCall(api, real_gdrive_id, TRUE, content, name, parent)>>
            \* UPDATE inodes SET gdrive_id = ? WHERE inode = ?
            d1 == [d EXCEPT !.inodes[inode] = real_gdrive_id]
            d2 == clear_dirty(d1, inode)
        IN  [steps |-> pre \o <<St(d, rm1, bl1, c1), St(d1, rm1, bl1, c1), St(d2, rm1, bl1, c1)>>,
             ok |-> TRUE]

\* Uploader::handle_conflict, entered after the calls `calls`
handle_conflict(d, rm, bl, inode, gdrive_id, t, fail, calls) ==
    LET conflict_name == ConflictName(get_file_name(d, inode), t)
        parent == get_parent_gdrive_id(d, inode)
        new == FreshRemoteId(rm)
    IN  IF parent = None THEN [steps |-> <<St(d, rm, bl, calls)>>, ok |-> FALSE]
        ELSE IF gdrive_id \notin DOMAIN bl THEN [steps |-> <<St(d, rm, bl, calls)>>, ok |-> TRUE]
        ELSE IF inode \notin DOMAIN d.attrs THEN [steps |-> <<St(d, rm, bl, calls)>>, ok |-> FALSE]
        ELSE IF fail = 2 \/ new = None
        THEN [steps |-> <<St(d, rm, bl, calls),
                          St(d, rm, bl, Append(calls, Call("upload_file", gdrive_id, FALSE)))>>,
              ok |-> FALSE]
        ELSE
        LET conflict_gdrive_id == Unwrap(new)
            rm1 == Put(rm, conflict_gdrive_id, RemoteFile(Some(bl[gdrive_id])))
            c2 == Append(calls, UploadCall("upload_file", conflict_gdrive_id, TRUE,
                                           Some(bl[gdrive_id]), conflict_name, Unwrap(parent)))
        IN  [steps |-> <<St(d, rm, bl, calls), St(d, rm1, bl, c2),
                         St(clear_dirty(d, inode), rm1, bl, c2)>>,
             ok |-> TRUE]

\* Uploader::update_file
update_file(d, rm, bl, inode, gdrive_id, t, fail) ==
    LET known_md5 == get_remote_md5(d, inode)
        c0 == <<Call("get_file_md5", gdrive_id, FALSE)>>
        c1 == <<Call("get_file_md5", gdrive_id, TRUE)>>
    IN  IF fail = 1 \/ gdrive_id \notin DOMAIN rm
        THEN [steps |-> <<St(d, rm, bl, c0)>>, ok |-> FALSE]
        ELSE
        LET current_remote_md5 == get_file_md5(rm, gdrive_id)
        IN  IF /\ known_md5 # None
               /\ current_remote_md5 # None
               /\ Unwrap(known_md5) # Unwrap(current_remote_md5)
            THEN handle_conflict(d, rm, bl, inode, gdrive_id, t, fail, c1)
            ELSE IF gdrive_id \notin DOMAIN bl
            THEN [steps |-> <<St(d, rm, bl, c1)>>, ok |-> TRUE]
            ELSE IF fail = 2
            THEN [steps |-> <<St(d, rm, bl, c1),
                              St(d, rm, bl, Append(c1, Call("update_file_content", gdrive_id, FALSE)))>>,
                  ok |-> FALSE]
            ELSE
            LET rm1 == [rm EXCEPT ![gdrive_id].content = Some(bl[gdrive_id])]
                c2 == Append(c1, Call("update_file_content", gdrive_id, TRUE))
            IN  IF fail = 3
                THEN [steps |-> <<St(d, rm, bl, c1), St(d, rm1, bl, c2),
                                  St(d, rm1, bl, Append(c2, Call("get_file_md5", gdrive_id, FALSE)))>>,
                      ok |-> FALSE]
                ELSE
                LET new_md5 == get_file_md5(rm1, gdrive_id)
                    c3 == Append(c2, Call("get_file_md5", gdrive_id, TRUE))
                    d1 == IF new_md5 # None THEN set_remote_md5(d, inode, Unwrap(new_md5)) ELSE d
                IN  [steps |-> <<St(d, rm, bl, c1), St(d, rm1, bl, c2), St(d, rm1, bl, c3)>>
                               \o (IF d1 # d THEN <<St(d1, rm1, bl, c3)>> ELSE <<>>)
                               \o <<St(clear_dirty(d1, inode), rm1, bl, c3)>>,
                     ok |-> TRUE]

\* a trash_file call and its answer
TrashCall(id, answer) ==
    [call |-> "trash_file", id |-> id, ok |-> (answer = "ok"), answer |-> answer]

\* Uploader::delete_file; `outcome` is what trash_file answers:
\* "ok", "forbidden" (DriveError::InsufficientPermissions) or "error"
delete_file(d, rm, bl, inode, gdrive_id, outcome) ==
    IF is_temp(gdrive_id)
    THEN [steps |-> <<St(clear_dirty(d, inode), rm, bl, <<>>)>>, ok |-> TRUE]
    ELSE
    LET \* a file the account does not have cannot be trashed
        answer == IF outcome = "ok" /\ gdrive_id \notin DOMAIN rm THEN "error" ELSE outcome
        c == <<TrashCall(gdrive_id, answer)>>
    IN  IF answer = "ok"
        THEN [steps |-> <<St(d, rm, bl, c), St(clear_dirty(d, inode), rm, bl, c)>>,
              ok |-> TRUE]
        ELSE IF answer = "forbidden"
        THEN LET \* UPDATE sync_state SET deleted_at = NULL WHERE inode = ?
                 d1 == IF inode \in DOMAIN d.sync_state
                       THEN [d EXCEPT !.sync_state[inode].deleted_at = None] ELSE d
             IN  [steps |-> <<St(d, rm, bl, c), St(d1, rm, bl, c),
                              St(clear_dirty(d1, inode), rm, bl, c)>>,
                  ok |-> TRUE]
        ELSE [steps |-> <<St(d, rm, bl, c)>>, ok |-> FALSE]

\* Uploader::upload_file: one item of the dirty_files list
upload_file(d, rm, bl, inode, gdrive_id, is_delete, t, fail, outcome) ==
    IF is_delete THEN delete_file(d, rm, bl, inode, gdrive_id, outcome)
    ELSE IF is_temp(gdrive_id) THEN create_file(d, rm, bl, inode, gdrive_id, fail)
    ELSE update_file(d, rm, bl, inode, gdrive_id, t, fail)

-----------------------------------------------------------------------------
(* File content.  A byte is a one-character string; a sparse hole reads as  *)
(* ZeroByte.  A cache blob is the sequence of the bytes of its file.        *)

ZeroByte == "NUL"

\* seek(SeekFrom::Start(offset)) and write_all(data) on a file holding `blob`
WriteAt(blob, offset, data) ==
    IF data = <<>> THEN blob
    ELSE [k \in 1..Max2(Len(blob), offset + Len(data)) |->
            IF k > offset /\ k <= offset + Len(data) THEN data[k - offset]
            ELSE IF k <= Len(blob) THEN blob[k]
            ELSE ZeroByte]

\* bytes[start..end] of a slice, offsets counted from 0, end exclusive
Slice(bytes, start, end) == SubSeq(bytes, start + 1, Min2(end, Len(bytes)))

\* shortcuts::is_workspace_file: mime_type.starts_with("application/vnd.google-apps.")
is_workspace_file(mime_type) == mime_type \in {FolderMime, DocMime}

\* shortcuts::generate_desktop_entry: the first line byte by byte, then one
\* element for each fixed fragment and each argument
generate_desktop_entry(file_id, name, mime_type) ==
    LET url == IF mime_type = DocMime
               THEN <<"https://docs.google.com/document/d/", file_id, "/edit">>
               ELSE <<"https://drive.google.com/file/d/", file_id, "/view">>
        icon == IF mime_type = DocMime THEN "x-office-document" ELSE "text-html"
    IN  <<"[", "D", "e", "s", "k", "t", "o", "p", " ", "E", "n", "t", "r", "y", "]", "\n",
          "Version=1.0\n", "Type=Link\n", "Name=">> \o name
          \o <<"\n", "Icon=", icon, "\n", "URL=">> \o url \o <<"\n">>

\* GDriveFS::write
write(d, bl, inode, offset, data) ==
    IF inode \notin DOMAIN d.inodes
    THEN [errno |-> "ENOENT", written |-> 0, db |-> d, blobs |-> bl]
    ELSE
    LET gdrive_id == d.inodes[inode]
        \* OpenOptions::new().create(true).write(true)
        old == IF gdrive_id \in DOMAIN bl THEN bl[gdrive_id] ELSE <<>>
        new == WriteAt(old, offset, data)
        \* UPDATE attrs SET size = ?, mtime = ? WHERE inode = ?
        d1 == IF inode \in DOMAIN d.attrs THEN [d EXCEPT !.attrs[inode].size = Len(new)] ELSE d
    IN  [errno |-> "OK", written |-> Len(data), db |-> mark_dirty(d1, inode),
         blobs |-> Put(bl, gdrive_id, new)]

\* DriveClient::download_chunk: the bytes of the Range, None on an error status
download_chunk(rm, file_id, offset, size) ==
    IF file_id \notin DOMAIN rm THEN None
    ELSE IF rm[file_id].content = None THEN None
    ELSE IF offset >= Len(Unwrap(rm[file_id].content)) THEN None
    ELSE Some(Slice(Unwrap(rm[file_id].content), offset, offset + size))

\* a download_chunk request of a task and whether it succeeded
RangeCall(start, size, ok) == [start |-> start, size |-> size, ok |-> ok]

\* Download tasks that record the chunk row of a range whose request failed.
RECURSIVE DownloadRangesRecordsFailed(_, _, _, _, _, _, _, _)
DownloadRangesRecordsFailed(d, rm, bl, inode, gdrive_id, ranges, k, failing) ==
    IF k > Len(ranges) THEN [err |-> FALSE, db |-> d, blobs |-> bl, calls |-> <<>>]
    ELSE
    LET start == ranges[k][1]
        end == ranges[k][2]
        data == download_chunk(rm, gdrive_id, start, end - start + 1)
    IN  IF k \in failing \/ data = None
        THEN LET rest == DownloadRangesRecordsFailed(add_cached_chunk(d, inode, start, end), rm, bl,
                                                     inode, gdrive_id, ranges, k + 1, failing)
             IN  [rest EXCEPT !.err = TRUE,
                              !.calls = <<RangeCall(start, end - start + 1, FALSE)>> \o @]
        ELSE LET rest == DownloadRangesRecordsFailed(add_cached_chunk(d, inode, start, end), rm,
                            Put(bl, gdrive_id, WriteAt(bl[gdrive_id], start, Unwrap(data))),
                            inode, gdrive_id, ranges, k + 1, failing)
             IN  [rest EXCEPT !.calls = <<RangeCall(start, end - start + 1, TRUE)>> \o @]

\* ensure_range_cached: the download tasks of the missing ranges; the tasks
\* whose index is in `failing` get an error from the remote
RECURSIVE DownloadRanges(_, _, _, _, _, _, _, _)
DownloadRanges(d, rm, bl, inode, gdrive_id, ranges, k, failing) ==
    IF k > Len(ranges) THEN [err |-> FALSE, db |-> d, blobs |-> bl, calls |-> <<>>]
    ELSE
    LET start == ranges[k][1]
        end == ranges[k][2]
        data == download_chunk(rm, gdrive_id, start, end - start + 1)
    IN  IF k \in failing \/ data = None
        THEN LET rest == DownloadRanges(d, rm, bl, inode, gdrive_id, ranges, k + 1, failing)
             IN  [rest EXCEPT !.err = TRUE,
                              !.calls = <<RangeCall(start, end - start + 1, FALSE)>> \o @]
        ELSE LET rest == DownloadRanges(add_cached_chunk(d, inode, start, end), rm,
                            Put(bl, gdrive_id, WriteAt(bl[gdrive_id], start, Unwrap(data))),
                            inode, gdrive_id, ranges, k + 1, failing)
             IN  [rest EXCEPT !.calls = <<RangeCall(start, end - start + 1, TRUE)>> \o @]

\* GDriveFS::ensure_range_cached: [err, db, blobs, calls]
ensure_range_cached(d, rm, bl, inode, gdrive_id, offset, size, file_size, failing) ==
    LET requested_start == offset
        requested_end == Min2(offset + size - 1, file_size - 1)
        done == [err |-> FALSE, db |-> d, blobs |-> bl, calls |-> <<>>]
    IN  IF requested_start >= file_size THEN done
        ELSE IF gdrive_id \in DOMAIN bl /\ Len(bl[gdrive_id]) = file_size
        THEN done
        ELSE
        LET missing_ranges == get_missing_ranges(d, inode, requested_start, requested_end)
            \* File::create(&cache_path) when the blob does not exist
            bl1 == IF gdrive_id \in DOMAIN bl THEN bl ELSE Put(bl, gdrive_id, <<>>)
        IN  IF missing_ranges = <<>> THEN done
            ELSE DownloadRanges(d, rm, bl1, inode, gdrive_id, missing_ranges, 1, failing)

\* GDriveFS::read: [errno, data, db, blobs, calls]
read(d, rm, bl, inode, offset, size, failing) ==
    IF inode \notin DOMAIN d.inodes \/ inode \notin DOMAIN d.attrs
    THEN [errno |-> "ENOENT", data |-> <<>>, db |-> d, blobs |-> bl, calls |-> <<>>]
    ELSE
    LET gdrive_id == d.inodes[inode]
        mime_type == d.attrs[inode].mime_type
        file_size == d.attrs[inode].size
    IN  IF mime_type # None /\ is_workspace_file(Unwrap(mime_type))
        THEN LET bytes == generate_desktop_entry(gdrive_id, get_file_name(d, inode),
                                                 Unwrap(mime_type))
             IN  [errno |-> "OK", data |-> Slice(bytes, offset, offset + size),
                  db |-> d, blobs |-> bl, calls |-> <<>>]
        ELSE IF file_size > 0
        THEN LET e == ensure_range_cached(d, rm, bl, inode, gdrive_id, offset, size,
                                          file_size, failing)
             IN  IF e.err \/ gdrive_id \notin DOMAIN e.blobs
                 THEN [errno |-> "EIO", data |-> <<>>, db |-> e.db, blobs |-> e.blobs,
                       calls |-> e.calls]
                 ELSE [errno |-> "OK", data |-> Slice(e.blobs[gdrive_id], offset, offset + size),
                       db |-> e.db, blobs |-> e.blobs, calls |-> e.calls]
        ELSE [errno |-> "OK", data |-> <<>>, db |-> d, blobs |-> bl, calls |-> <<>>]

-----------------------------------------------------------------------------
(* RangeSpec: the chunk table of one file under add_cached_chunk and       *)
(* get_missing_ranges.  Inode 3 holds a chunk of its own from the start.   *)

RangeInode == RootInode + 1
OtherInode == RootInode + 2

RangeDb ==
    [DbRootOnly EXCEPT
        !.inodes = @ @@ (RangeInode :> "a") @@ (OtherInode :> "b"),
        !.attrs = @ @@ (RangeInode :> FileAttrs(MaxOff + 1, PlainMime))
                    @@ (OtherInode :> FileAttrs(MaxOff + 1, PlainMime)),
        !.file_cache_chunks = (<<OtherInode, 0>> :> 1)]

RangeInit ==
    /\ db = RangeDb
    /\ blobs = EmptyMap
    /\ now = 1
    /\ remote = EmptyMap
    /\ up = <<>>
    /\ uuids = 0
    /\ tasks = EmptyMap
    /\ hist = [last |-> NoCall, inserted |-> {<<OtherInode, 0>>, <<OtherInode, 1>>}]

AddCachedChunk ==
    \E s \in Offsets, e \in Offsets :
        /\ s <= e
        /\ db' = add_cached_chunk(db, RangeInode, s, e)
        /\ hist' = [hist EXCEPT
              !.last = [op |-> "add_cached_chunk", inode |-> RangeInode,
                        start |-> s, end |-> e],
              !.inserted = @ \cup {<<RangeInode, o>> : o \in s..e}]
        /\ UNCHANGED <<blobs, now, remote, up, uuids, tasks>>

GetMissingRanges ==
    \E s \in Offsets, e \in Offsets :
        /\ s <= e
        /\ hist' = [hist EXCEPT
              !.last = [op |-> "get_missing_ranges", inode |-> RangeInode,
                        start |-> s, end |-> e,
                        reply |-> get_missing_ranges(db, RangeInode, s, e)]]
        /\ UNCHANGED <<db, blobs, now, remote, up, uuids, tasks>>

RangeNext == AddCachedChunk \/ GetMissingRanges

RangeSpec == RangeInit /\ [][RangeNext]_vars

\* offset o of inode i lies in some recorded chunk
Covered(i, o) ==
    \E k \in DOMAIN db.file_cache_chunks :
        k[1] = i /\ k[2] <= o /\ o <= db.file_cache_chunks[k]

\* the offsets of the intervals of a reply
OffsetsOf(ranges) ==
    UNION { ranges[k][1]..ranges[k][2] : k \in 1..Len(ranges) }

\* C7: get_missing_ranges(i, s, e) returns intervals that are sorted ascending,
\* pairwise disjoint, inside [s, e], and whose union is exactly the offsets of
\* [s, e] that no chunk of i covers; with no overlapping chunk it is [(s, e)].
C7_MissingRangesExact ==
    hist.last.op = "get_missing_ranges" =>
        LET m == hist.last.reply
            s == hist.last.start
            e == hist.last.end
            i == hist.last.inode
        IN  /\ \A k \in 1..Len(m) : s <= m[k][1] /\ m[k][1] <= m[k][2] /\ m[k][2] <= e
            /\ \A k \in 1..(Len(m) - 1) : m[k][2] < m[k + 1][1]
            /\ OffsetsOf(m) = {o \in s..e : ~Covered(i, o)}
            /\ (\A o \in s..e : ~Covered(i, o)) => m = << <<s, e>> >>

\* a reply with two gaps, computed over chunks one of which is nested in or
\* overlaps another and one of which starts before the request
C7_Witness ==
    /\ hist.last.op = "get_missing_ranges"
    /\ Len(hist.last.reply) = 2
    /\ \E k \in DOMAIN db.file_cache_chunks : k[1] = RangeInode

C7_WitnessOverlap ==
    /\ hist.last.op = "get_missing_ranges"
    /\ Len(hist.last.reply) = 1
    /\ \E k1, k2 \in DOMAIN db.file_cache_chunks :
          /\ k1[1] = RangeInode /\ k2[1] = RangeInode /\ k1[2] < k2[2]
          /\ k2[2] <= db.file_cache_chunks[k1]
          /\ k1[2] < hist.last.start

\* the offsets get_missing_ranges reports as covered over the whole file
ReportedCovered(i) ==
    Offsets \ OffsetsOf(get_missing_ranges(db, i, 0, MaxOff))

\* C8: after any sequence of add_cached_chunk calls the offsets reported as
\* covered are the union of all inserted intervals (no covered offset becomes
\* missing again), and right after add_cached_chunk(i, s, e) the call
\* get_missing_ranges(i, s, e) is empty.
C8_CoverageIsUnion ==
    /\ ReportedCovered(RangeInode) = {o \in Offsets : <<RangeInode, o>> \in hist.inserted}
    /\ hist.last.op = "add_cached_chunk" =>
          get_missing_ranges(db, hist.last.inode, hist.last.start, hist.last.end) = <<>>

-----------------------------------------------------------------------------
(* The store after bootstrap over a small account: folder "d" under the    *)
(* root and file "a" inside it.  File names are sequences of characters.   *)

NameD == <<"d">>
NameX == <<"x", ".", "t">>
NameY == <<"y">>

DirInode == RootInode + 1
FileInode == RootInode + 2

DirAttrs == [size |-> 0, mode |-> 493, is_dir |-> TRUE, mime_type |-> Some(FolderMime)]

BootDb ==
    [DbRootOnly EXCEPT
        !.inodes = @ @@ (DirInode :> "d") @@ (FileInode :> "a"),
        !.attrs = @ @@ (DirInode :> DirAttrs) @@ (FileInode :> FileAttrs(2, PlainMime)),
        !.dentry = (<<RootInode, NameD>> :> DirInode) @@ (<<DirInode, NameX>> :> FileInode)]

Tick ==
    /\ now < MaxNow
    /\ now' = now + 1
    /\ UNCHANGED <<db, blobs, remote, up, uuids, hist, tasks>>

-----------------------------------------------------------------------------
(* TombSpec: sequences of soft_delete and restore calls on the store.      *)

TombIds == {"a", "d", "zz"}

TombInit ==
    /\ db = BootDb
    /\ blobs = EmptyMap
    /\ now = 1
    /\ remote = EmptyMap
    /\ up = <<>>
    /\ uuids = 0
    /\ tasks = EmptyMap
    /\ hist = [last |-> NoCall, lastFor |-> [r \in TombIds |-> "none"]]

SoftDelete ==
    \E r \in TombIds :
        LET res == soft_delete_by_gdrive_id(db, r, now)
        IN  /\ db' = res.db
            /\ hist' = [last |-> [op |-> "soft_delete", gdrive_id |-> r, ret |-> res.ret,
                                  err |-> res.err, before |-> db,
                                  before_op |-> hist.lastFor[r]],
                        lastFor |-> [hist.lastFor EXCEPT ![r] = "soft_delete"]]
            /\ UNCHANGED <<blobs, now, remote, up, uuids, tasks>>

Restore ==
    \E r \in TombIds :
        LET res == restore_by_gdrive_id(db, r)
        IN  /\ db' = res.db
            /\ hist' = [last |-> [op |-> "restore", gdrive_id |-> r, ret |-> res.ret,
                                  err |-> res.err, before |-> db,
                                  before_op |-> hist.lastFor[r]],
                        lastFor |-> [hist.lastFor EXCEPT ![r] = "restore"]]
            /\ UNCHANGED <<blobs, now, remote, up, uuids, tasks>>

TombNext == SoftDelete \/ Restore \/ Tick

TombSpec == TombInit /\ [][TombNext]_vars

\* C10: for an existing remote id whose inode has a visible entry, after any
\* sequence of soft_delete and restore calls the entries are those of the last
\* call: after soft_delete no visible entry and a tombstone, after restore the
\* original entry and no tombstone; soft_delete of an unknown id changes
\* nothing; a repeated soft_delete leaves entries and tombstone as they were.
C10_LastCallWins ==
    /\ \A r \in {"a", "d"} :
          LET x == Unwrap(get_inode_by_gdrive_id(BootDb, r))
              k == CHOOSE k \in DentryRowsOf(BootDb, x) : TRUE
          IN  /\ hist.lastFor[r] = "soft_delete" =>
                    /\ DentryRowsOf(db, x) = {}
                    /\ lookup(db, k[1], k[2]) = None
                    /\ has_tombstone(db, r)
                    /\ db.dentry_deleted[x].parent_inode = k[1]
                    /\ db.dentry_deleted[x].name = k[2]
              /\ hist.lastFor[r] = "restore" =>
                    /\ DentryRowsOf(db, x) = {k}
                    /\ lookup(db, k[1], k[2]) = Some(x)
                    /\ ~has_tombstone(db, r)
    /\ (hist.last.op = "soft_delete" /\ hist.last.gdrive_id = "zz") =>
          db = hist.last.before /\ hist.last.ret = FALSE
    /\ (hist.last.op = "soft_delete" /\ hist.last.before_op = "soft_delete") =>
          /\ db.dentry = hist.last.before.dentry
          /\ db.dentry_deleted = hist.last.before.dentry_deleted

\* a restore that found a tombstone written at an earlier time by two
\* soft_delete calls in a row
C10_Witness ==
    /\ hist.last.op = "restore"
    /\ hist.last.gdrive_id = "a"
    /\ hist.last.ret
    /\ FileInode \in DOMAIN hist.last.before.dentry_deleted
    /\ hist.last.before.sync_state[FileInode].deleted_at
          # Some(hist.last.before.dentry_deleted[FileInode].deleted_at)

-----------------------------------------------------------------------------
(* FsSpec: the FUSE handlers create, unlink and rename, the puller's change *)
(* processing and the uploader's cycle over the bootstrapped store.  The    *)
(* clock stays inside the tombstone grace period, so the purge at the end   *)
(* of a puller cycle removes nothing.                                       *)

\* the account behind BootDb
BootRemote ==
    ("d" :> RemoteFile(None)) @@ ("a" :> RemoteFile(Some(<<"7", "8">>)))

\* the (parent, name) pairs the kernel asks about: two in "d", one in the root
FsSlots == {<<DirInode, NameX>>, <<DirInode, NameY>>, <<RootInode, NameY>>}

\* google_drive3::api::File values of the change feed
ChangeFile(name, parents, md5_checksum, trashed) ==
    [name |-> name, mime_type |-> Some(PlainMime), size |-> 2, trashed |-> trashed,
     parents |-> parents, md5_checksum |-> md5_checksum]

Change(file_id, removed, file) == [file_id |-> file_id, removed |-> removed, file |-> file]

\* changes of file "a": removed, trashed, moved to the root as "y", back in "d"
\* as "x.t", and listed as "y" under both parents
FsChanges ==
    { Change("a", TRUE, None),
      Change("a", FALSE, Some(ChangeFile(NameX, Some(<<"d">>), None, TRUE))),
      Change("a", FALSE, Some(ChangeFile(NameY, None, None, FALSE))),
      Change("a", FALSE, Some(ChangeFile(NameX, Some(<<"d">>), None, FALSE))),
      Change("a", FALSE, Some(ChangeFile(NameY, Some(<<"root", "d">>), None, FALSE))) }

FsInit ==
    /\ db = BootDb
    /\ blobs = EmptyMap
    /\ now = 1
    /\ remote = BootRemote
    /\ up = <<>>
    /\ uuids = 0
    /\ tasks = EmptyMap
    /\ hist = [last |-> NoCall]

CreateIn(slots) ==
    \E parent \in {RootInode, DirInode}, name \in {NameX, NameY} :
        /\ <<parent, name>> \in slots
        /\ uuids < MaxCreates
        /\ uuids < Len(TempNames)
        /\ LET r == create(db, parent, name, 420, TempNames[uuids + 1])
           IN  /\ db' = r.db
               /\ hist' = [last |-> [op |-> "create", parent |-> parent, name |-> name,
                                     errno |-> r.errno, inode |-> r.inode,
                                     old_inodes |-> DOMAIN db.inodes]]
        /\ uuids' = uuids + 1
        /\ UNCHANGED <<blobs, now, remote, up, tasks>>

UnlinkIn(slots) ==
    \E parent \in {RootInode, DirInode}, name \in {NameX, NameY} :
        LET r == unlink(db, parent, name, now)
        IN  /\ <<parent, name>> \in slots
            /\ db' = r.db
            /\ hist' = [last |-> [op |-> "unlink", parent |-> parent, name |-> name,
                                  errno |-> r.errno, child |-> lookup(db, parent, name)]]
            /\ UNCHANGED <<blobs, now, remote, up, uuids, tasks>>

Create == CreateIn(FsSlots)

Unlink == UnlinkIn(FsSlots)

Rename ==
    \E from \in FsSlots, to \in FsSlots :
        LET parent == from[1]
            name == from[2]
            new_parent == to[1]
            new_name == to[2]
            r == rename(db, parent, name, new_parent, new_name, now)
        IN  /\ db' = r.db
            /\ hist' = [last |-> [op |-> "rename", parent |-> parent, name |-> name,
                                  new_parent |-> new_parent, new_name |-> new_name,
                                  errno |-> r.errno, child |-> lookup(db, parent, name),
                                  existing |-> lookup(db, new_parent, new_name)]]
            /\ UNCHANGED <<blobs, now, remote, up, uuids, tasks>>

\* sync_once: one change of the list is processed
ProcessChangeOf(changes) ==
    \E change \in changes :
        LET r == process_change(db, change, now)
        IN  /\ db' = r.db
            /\ hist' = [last |-> [op |-> "change", file_id |-> change.file_id, err |-> r.err]]
            /\ UNCHANGED <<blobs, now, remote, up, uuids, tasks>>

FsProcessChange == ProcessChangeOf(FsChanges)

\* the rows of get_dirty_files in inode order
RECURSIVE SortByInode(_)
SortByInode(S) ==
    IF S = {} THEN <<>>
    ELSE LET m == CHOOSE x \in S : \A y \in S : x[1] <= y[1]
         IN  <<m>> \o SortByInode(S \ {m})

\* upload_cycle: let dirty_files = self.get_dirty_files().await?
UploadScan ==
    /\ up = <<>>
    /\ get_dirty_files(db) # {}
    /\ up' = SortByInode(get_dirty_files(db))
    /\ hist' = [last |-> [op |-> "scan"]]
    /\ UNCHANGED <<db, blobs, now, remote, uuids, tasks>>

\* what the uploader finds for an item of dirty_files before it handles it
ItemState(d, rm, bl, item) ==
    [sync_state |-> IF item[1] \in DOMAIN d.sync_state THEN Some(d.sync_state[item[1]]) ELSE None,
     gdrive_id |-> IF item[1] \in DOMAIN d.inodes THEN Some(d.inodes[item[1]]) ELSE None,
     known_md5 |-> get_remote_md5(d, item[1]),
     current_remote_md5 |-> IF item[2] \in DOMAIN rm THEN get_file_md5(rm, item[2]) ELSE None,
     blob |-> IF item[2] \in DOMAIN bl THEN Some(bl[item[2]]) ELSE None,
     name |-> get_file_name(d, item[1]),
     parent |-> get_parent_gdrive_id(d, item[1]),
     attrs |-> IF item[1] \in DOMAIN d.attrs THEN Some(d.attrs[item[1]]) ELSE None,
     entries |-> DentryRowsOf(d, item[1]),
     remote_ids |-> DOMAIN rm]

\* upload_cycle: one item of the for loop.  The task runs the handler to its
\* end (k = Len(steps)) or, when the process shuts down, is cancelled after k
\* of its effects.  `fails` says which remote call of the handler may fail,
\* `outcomes` what trash_file can answer on the account.
UploadItemOf(fails, outcomes, cancellable) ==
    /\ up # <<>>
    /\ \E fail \in fails, outcome \in outcomes :
        LET item == Head(up)
            \* delete_file reads `outcome` only, the other handlers `fail` only
            one == IF item[3] THEN fail = CHOOSE f \in fails : TRUE
                   ELSE outcome = CHOOSE o \in outcomes : TRUE
            r == upload_file(db, remote, blobs, item[1], item[2], item[3], now, fail, outcome)
        IN  \E k \in (IF cancellable THEN 0..Len(r.steps) ELSE {Len(r.steps)}) :
            LET s == IF k = 0 THEN St(db, remote, blobs, <<>>) ELSE r.steps[k]
                aborted == k < Len(r.steps)
            IN  /\ one
                /\ db' = s.db
                /\ remote' = s.remote
                /\ blobs' = s.blobs
                /\ up' = IF aborted THEN <<>> ELSE Tail(up)
                /\ hist' = [last |-> [op |-> "upload", inode |-> item[1], gdrive_id |-> item[2],
                                      is_delete |-> item[3], calls |-> s.calls,
                                      aborted |-> aborted, ok |-> r.ok /\ ~aborted,
                                      t |-> now, was |-> ItemState(db, remote, blobs, item)]]
                /\ UNCHANGED <<now, uuids, tasks>>

\* one mount session over an account of owned files: no shutdown, and
\* trash_file is never refused; a handler makes one remote call here, as no
\* file with a real id has a cache blob
FsUploadItem == UploadItemOf({0, 1}, {"ok", "error"}, FALSE)

FsNext == Create \/ Unlink \/ Rename \/ FsProcessChange \/ UploadScan \/ FsUploadItem

FsSpec == FsInit /\ [][FsNext]_vars

\* the inodes lookup can reach: children of dentry rows
Visible(d) == {d.dentry[k] : k \in DOMAIN d.dentry}

\* C2: after unlink(p, name) of a visible entry of inode x with remote id r
\* returns success, lookup(p, name) is not-found, has_tombstone(r) is true,
\* and sync_state of x has dirty = 1 with deleted_at set, so that the dirty
\* scan lists x as a delete.
C2_UnlinkPost ==
    (hist.last.op = "unlink" /\ hist.last.errno = "OK") =>
        LET x == Unwrap(hist.last.child)
            r == db.inodes[x]
        IN  /\ lookup(db, hist.last.parent, hist.last.name) = None
            /\ has_tombstone(db, r)
            /\ x \in DOMAIN db.sync_state
            /\ db.sync_state[x].dirty = 1
            /\ db.sync_state[x].deleted_at # None
            /\ <<x, r, TRUE>> \in get_dirty_files(db)

\* an unlink succeeded on a created file that the uploader had given a real id
C2_Witness ==
    /\ hist.last.op = "unlink"
    /\ hist.last.errno = "OK"
    /\ ~is_temp(db.inodes[Unwrap(hist.last.child)])
    /\ Unwrap(hist.last.child) # FileInode

\* C3: after rename(p, n, p', n') of a visible entry of inode x to a
\* destination different from (p, n) returns success, lookup(p, n) is
\* not-found, lookup(p', n') is x, x has dirty = 1, and an inode that occupied
\* (p', n') before has a tombstone and is no longer visible.
C3_RenamePost ==
    ( /\ hist.last.op = "rename"
      /\ hist.last.errno = "OK"
      /\ <<hist.last.parent, hist.last.name>> # <<hist.last.new_parent, hist.last.new_name>> ) =>
        LET x == Unwrap(hist.last.child)
        IN  /\ lookup(db, hist.last.parent, hist.last.name) = None
            /\ lookup(db, hist.last.new_parent, hist.last.new_name) = Some(x)
            /\ x \in DOMAIN db.sync_state
            /\ db.sync_state[x].dirty = 1
            /\ \A y \in hist.last.existing :
                  /\ y \in DOMAIN db.dentry_deleted
                  /\ y \notin Visible(db)

\* a rename into the other directory succeeded over an occupied destination
C3_Witness ==
    /\ hist.last.op = "rename"
    /\ hist.last.errno = "OK"
    /\ hist.last.parent # hist.last.new_parent
    /\ hist.last.existing # None

\* C4: after create(p, name) returns success, lookup(p, name) is the newly
\* allocated inode, which no inodes row had before; its remote id begins with
\* temp_, its attrs have size 0 and is_dir false, and its sync_state has
\* dirty = 1 and deleted_at NULL.
C4_CreatePost ==
    (hist.last.op = "create" /\ hist.last.errno = "OK") =>
        LET i == hist.last.inode
        IN  /\ lookup(db, hist.last.parent, hist.last.name) = Some(i)
            /\ i \notin hist.last.old_inodes
            /\ i \in DOMAIN db.inodes
            /\ is_temp(db.inodes[i])
            /\ i \in DOMAIN db.attrs
            /\ db.attrs[i].size = 0
            /\ db.attrs[i].is_dir = FALSE
            /\ i \in DOMAIN db.sync_state
            /\ db.sync_state[i].dirty = 1
            /\ db.sync_state[i].deleted_at = None

\* a create succeeded on a name that another inode held
C4_Witness ==
    /\ hist.last.op = "create"
    /\ hist.last.errno = "OK"
    /\ \E i \in DOMAIN db.inodes \ {hist.last.inode} :
          /\ i \in hist.last.old_inodes
          /\ i \notin Visible(db)
          /\ i \notin DOMAIN db.dentry_deleted
          /\ i # RootInode

\* C9: in every state reached by create, unlink, rename, puller change
\* processing and uploader ticks, no inode is the child of a dentry row and of
\* a dentry_deleted row at the same time (dentry_deleted is keyed by
\* child_inode, so an inode has at most one tombstone row).
C9_DentryTombstoneDisjoint ==
    \A i \in Visible(db) : i \notin DOMAIN db.dentry_deleted


\* C13: each inode is the child of at most one visible DirectoryEntry row.
C13_OneVisibleEntry ==
    \A i \in DOMAIN db.inodes : Cardinality(DentryRowsOf(db, i)) <= 1

-----------------------------------------------------------------------------
(* UpSpec: the uploader over local writes, creates and unlinks, edits made  *)
(* to file "a" by another party, and the puller recording the md5 the       *)
(* account reports.  The uploader may be cancelled at any await point and   *)
(* any remote call may fail.                                                *)

UpInit ==
    /\ db = BootDb
    /\ blobs = EmptyMap
    /\ now = 1
    /\ remote = BootRemote
    /\ up = <<>>
    /\ uuids = 0
    /\ tasks = EmptyMap
    /\ hist = [last |-> NoCall]

\* the content another party gives file "a"
RemoteContents == {<<"9">>}

\* files are created, and unlinked, inside "d"
UpSlots == {<<DirInode, NameX>>, <<DirInode, NameY>>}

UpCreate == CreateIn({<<DirInode, NameY>>})

UpUnlink == UnlinkIn(UpSlots)

RemoteEdit ==
    \E content \in RemoteContents :
        /\ remote["a"].content # Some(content)
        /\ remote' = [remote EXCEPT !["a"].content = Some(content)]
        /\ hist' = [last |-> [op |-> "remote_edit"]]
        /\ UNCHANGED <<db, blobs, now, up, uuids, tasks>>

\* a write of one byte at offset 0 to file "a"
UpWrite ==
    \E inode \in {FileInode} :
        LET r == write(db, blobs, inode, 0, <<"5">>)
        IN  /\ db' = r.db
            /\ blobs' = r.blobs
            /\ hist' = [last |-> [op |-> "write", inode |-> inode, errno |-> r.errno]]
            /\ UNCHANGED <<now, remote, up, uuids, tasks>>

\* the change feed reports file "a" with the md5 the account has for it
UpProcessChange ==
    ProcessChangeOf({Change("a", FALSE,
                            Some(ChangeFile(NameX, Some(<<"d">>), get_file_md5(remote, "a"), FALSE)))})

UpUploadItem == UploadItemOf(0..3, {"ok", "forbidden", "error"}, TRUE)

UpNext ==
    \/ UpWrite
    \/ UpCreate
    \/ UpUnlink
    \/ RemoteEdit
    \/ UpProcessChange
    \/ UploadScan
    \/ UpUploadItem

UpSpec == UpInit /\ [][UpNext]_vars

\* the uploader has just handled an item
Uploaded == hist.last.op = "upload"

CallOk(api) ==
    \E k \in 1..Len(hist.last.calls) : hist.last.calls[k].call = api /\ hist.last.calls[k].ok

Called(api) == \E k \in 1..Len(hist.last.calls) : hist.last.calls[k].call = api

\* a remote call of the item failed, insufficient permissions aside
CallFailed ==
    \E k \in 1..Len(hist.last.calls) :
        /\ ~hist.last.calls[k].ok
        /\ ~(hist.last.calls[k].call = "trash_file" /\ hist.last.calls[k].answer = "forbidden")

Forbidden ==
    \E k \in 1..Len(hist.last.calls) :
        hist.last.calls[k].call = "trash_file" /\ hist.last.calls[k].answer = "forbidden"

WasDirty == hist.last.was.sync_state # None /\ Unwrap(hist.last.was.sync_state).dirty = 1

NowClean ==
    hist.last.inode \in DOMAIN db.sync_state /\ db.sync_state[hist.last.inode].dirty = 0

\* C5: the uploader turns dirty from 1 to 0 only after the remote operation
\* matching the item has succeeded (create_folder or upload_file for a temp
\* id, update_file_content followed by the remote_md5 refresh for a real id,
\* trash_file for a delete), the delete of a temp id and the insufficient-
\* permissions case aside; and when a remote call fails or the item is
\* cancelled, dirty stays 1, deleted_at and the remote id are unchanged and
\* the next dirty scan lists the inode again.
C5_CleanOnlyAfterRemote ==
    (Uploaded /\ WasDirty) =>
        LET i == hist.last.inode
            r == hist.last.gdrive_id
        IN  /\ NowClean =>
                  IF hist.last.is_delete
                  THEN is_temp(r) \/ CallOk("trash_file") \/ Forbidden
                  ELSE IF is_temp(r)
                  THEN CallOk("create_folder") \/ CallOk("upload_file")
                  ELSE /\ CallOk("update_file_content")
                       /\ db.sync_state[i].remote_md5 = get_file_md5(remote, r)
            /\ (CallFailed \/ hist.last.aborted) =>
                  /\ db.sync_state[i].dirty = 1
                  /\ db.sync_state[i].deleted_at = Unwrap(hist.last.was.sync_state).deleted_at
                  /\ Some(db.inodes[i]) = hist.last.was.gdrive_id
                  /\ \E item \in get_dirty_files(db) : item[1] = i

\* the update path has compared the two md5 values of a real id
Compared ==
    /\ Uploaded
    /\ ~hist.last.is_delete
    /\ ~is_temp(hist.last.gdrive_id)
    /\ CallOk("get_file_md5")

Conflict ==
    /\ hist.last.was.known_md5 # None
    /\ hist.last.was.current_remote_md5 # None
    /\ hist.last.was.known_md5 # hist.last.was.current_remote_md5

\* the item ran to its end and no remote call failed
Completed == ~hist.last.aborted /\ ~CallFailed

\* the conflict copy: the local blob under the conflict name and the parent
ConflictCopyUploaded ==
    \E k \in 1..Len(hist.last.calls) :
        LET c == hist.last.calls[k]
        IN  /\ c.call = "upload_file"
            /\ c.ok
            /\ c.content = hist.last.was.blob
            /\ c.name = ConflictName(hist.last.was.name, hist.last.t)
            /\ Some(c.parent) = hist.last.was.parent
            /\ c.id \in DOMAIN remote
            /\ remote[c.id].content = hist.last.was.blob

\* C6: in the update path of a real remote id, when get_remote_md5(inode) and
\* the remote's current md5 are both present and differ, the uploader never
\* calls update_file_content; it uploads the local blob as a new file under
\* the same parent, named '<base> (Conflicto local <timestamp>)<.ext>', and
\* then marks the inode clean.  When the two are equal or one is absent, no
\* conflict copy is uploaded.
C6_ConflictCopy ==
    Compared =>
        IF Conflict
        THEN /\ ~Called("update_file_content")
             /\ Completed => (ConflictCopyUploaded /\ NowClean)
        ELSE ~Called("upload_file")


\* the last uploader item trashed a dirty, soft-deleted inode with a real
\* remote id and trash_file answered insufficient permissions
ForbiddenDelete ==
    /\ Uploaded
    /\ hist.last.is_delete
    /\ ~is_temp(hist.last.gdrive_id)
    /\ WasDirty
    /\ Unwrap(hist.last.was.sync_state).deleted_at # None
    /\ Forbidden
    /\ ~hist.last.aborted

\* C14: when trash_file for a dirty, soft-deleted inode with a real remote id
\* fails with insufficient permissions, afterwards deleted_at is null and dirty
\* is 0, the dirty scan does not list the inode (no further trash_file), and
\* the local state agrees with the remote, where the file still exists: the
\* inode is restored, with a visible entry and no tombstone.
C14_ForbiddenRestores ==
    ForbiddenDelete =>
        LET i == hist.last.inode
        IN  /\ db.sync_state[i].deleted_at = None
            /\ db.sync_state[i].dirty = 0
            /\ ~\E item \in get_dirty_files(db) : item[1] = i
            /\ hist.last.gdrive_id \in DOMAIN remote
            /\ i \notin DOMAIN db.dentry_deleted
            /\ DentryRowsOf(db, i) # {}


\* the last uploader item was a dirty, not-deleted inode with a temp id whose
\* handler ran to its end after the remote create succeeded
CreatedRemotely ==
    /\ Uploaded
    /\ ~hist.last.is_delete
    /\ is_temp(hist.last.gdrive_id)
    /\ hist.last.was.gdrive_id = Some(hist.last.gdrive_id)
    /\ WasDirty
    /\ Unwrap(hist.last.was.sync_state).deleted_at = None
    /\ CallOk("create_folder") \/ CallOk("upload_file")
    /\ ~hist.last.aborted

\* C15: when the uploader handles a dirty, not-deleted inode with a temp_ id
\* and the remote create returns id R, afterwards the same inode number has
\* remote id R, no inode keeps the temp id, dirty is 0 and the inode's
\* Attributes and DirectoryEntry rows are unchanged.
C15_CreateResolvesTempId ==
    CreatedRemotely =>
        LET i == hist.last.inode
            R == hist.last.calls[Len(hist.last.calls)].id
        IN  /\ R \in DOMAIN remote
            /\ R \notin hist.last.was.remote_ids
            /\ i \in DOMAIN db.inodes
            /\ db.inodes[i] = R
            /\ \A j \in DOMAIN db.inodes : db.inodes[j] # hist.last.gdrive_id
            /\ db.sync_state[i].dirty = 0
            /\ Some(db.attrs[i]) = hist.last.was.attrs
            /\ DentryRowsOf(db, i) = hist.last.was.entries

\* a created file, visible in folder "d", got its real id
C15_Witness ==
    /\ CreatedRemotely
    /\ hist.last.was.entries = {<<DirInode, NameY>>}
    /\ db.inodes[hist.last.inode] \in DOMAIN remote

-----------------------------------------------------------------------------
(* CacheSpec: write and read on the bootstrapped store, with a Google Docs  *)
(* document "g" in the root next to the plain file "a", and the puller      *)
(* re-announcing "a" with the size the account has for it.                  *)

DocInode == 4

\* the bytes FUSE hands to write
WriteData == {<<"5">>, <<"5", "6">>}

\* the sizes FUSE asks read for
ReadSizes == {1, 2}

CacheDb ==
    [BootDb EXCEPT
        !.inodes = @ @@ (DocInode :> "g"),
        !.attrs = @ @@ (DocInode :> FileAttrs(0, DocMime)),
        !.dentry = @ @@ (<<RootInode, NameY>> :> DocInode)]

CacheInit ==
    /\ db = CacheDb
    /\ blobs = EmptyMap
    /\ now = 1
    /\ remote = BootRemote @@ ("g" :> RemoteFile(None))
    /\ up = <<>>
    /\ uuids = 0
    /\ tasks = EmptyMap
    /\ hist = [last |-> NoCall, prev |-> NoCall]

\* the call before the one recorded as last, when it was a write
LastWrite == IF hist.last.op = "write" THEN hist.last ELSE NoCall

\* the offsets FUSE writes and reads at
CachePositions == {0, 2}

CacheWrite ==
    \E inode \in {FileInode, DocInode}, offset \in CachePositions, data \in WriteData :
        LET r == write(db, blobs, inode, offset, data)
        IN  /\ db' = r.db
            /\ blobs' = r.blobs
            /\ hist' = [last |-> [op |-> "write", inode |-> inode, offset |-> offset,
                                  data |-> data, errno |-> r.errno, written |-> r.written],
                        prev |-> LastWrite]
            /\ UNCHANGED <<now, remote, up, uuids, tasks>>

CacheRead ==
    \E inode \in {FileInode, DocInode}, offset \in CachePositions, size \in ReadSizes,
       failing \in {{}, {1}} :
        LET r == read(db, remote, blobs, inode, offset, size, failing)
        IN  /\ db' = r.db
            /\ blobs' = r.blobs
            /\ hist' = [last |-> [op |-> "read", inode |-> inode, offset |-> offset,
                                  size |-> size, errno |-> r.errno, data |-> r.data],
                        prev |-> LastWrite]
            /\ UNCHANGED <<now, remote, up, uuids, tasks>>

\* the puller applies a change of "a": attrs.size becomes the remote size
CacheProcessChange ==
    LET r == process_change(db, Change("a", FALSE,
                     Some(ChangeFile(NameX, Some(<<"d">>), get_file_md5(remote, "a"), FALSE))), now)
    IN  /\ db' = r.db
        /\ hist' = [last |-> [op |-> "change", file_id |-> "a", err |-> r.err], prev |-> LastWrite]
        /\ UNCHANGED <<blobs, now, remote, up, uuids, tasks>>

CacheNext ==
    \/ CacheWrite
    \/ CacheRead
    \/ CacheProcessChange

CacheSpec == CacheInit /\ [][CacheNext]_vars

\* the last call is a read of the range that the call before it wrote
ReadsBackWrite ==
    /\ hist.last.op = "read"
    /\ hist.prev.op = "write"
    /\ hist.prev.errno = "OK"
    /\ hist.last.inode = hist.prev.inode
    /\ hist.last.offset = hist.prev.offset
    /\ hist.last.size = Len(hist.prev.data)

\* C1: after write(i, off, bytes) on a regular-file inode the call reports
\* len(bytes) written, sync_state.dirty of i is 1 and attrs.size is the length
\* of the blob; a read(i, off, len(bytes)) that follows the write at once
\* returns exactly bytes.
C1_WriteReadRoundTrip ==
    /\ hist.last.op = "write" =>
          LET i == hist.last.inode
          IN  /\ hist.last.errno = "OK"
              /\ hist.last.written = Len(hist.last.data)
              /\ i \in DOMAIN db.sync_state
              /\ db.sync_state[i].dirty = 1
              /\ db.inodes[i] \in DOMAIN blobs
              /\ db.attrs[i].size = Len(blobs[db.inodes[i]])
    /\ ReadsBackWrite => (hist.last.errno = "OK" /\ hist.last.data = hist.prev.data)

-----------------------------------------------------------------------------
(* PurgeSpec: soft deletes and restores of the folder "d" and the file "a",  *)
(* the puller re-announcing "a", the clock passing the grace period, and    *)
(* the purge at the end of a puller cycle.                                  *)

\* the clock runs over the first two seconds of day 0 .. MaxDays
MaxDays == 1

\* grace_days of a purge call
GraceDays == {0, 1}

PurgeIds == {"a", "d"}

PurgeInit ==
    /\ db = add_cached_chunk(BootDb, FileInode, 0, 1)
    /\ blobs = EmptyMap
    /\ now = 1
    /\ remote = EmptyMap
    /\ up = <<>>
    /\ uuids = 0
    /\ tasks = EmptyMap
    /\ hist = [last |-> NoCall]

PurgeSoftDelete ==
    \E r \in PurgeIds :
        LET res == soft_delete_by_gdrive_id(db, r, now)
        IN  /\ db' = res.db
            /\ hist' = [last |-> [op |-> "soft_delete", gdrive_id |-> r, err |-> res.err]]
            /\ UNCHANGED <<blobs, now, remote, up, uuids, tasks>>

PurgeRestore ==
    \E r \in PurgeIds :
        LET res == restore_by_gdrive_id(db, r)
        IN  /\ db' = res.db
            /\ hist' = [last |-> [op |-> "restore", gdrive_id |-> r, err |-> res.err]]
            /\ UNCHANGED <<blobs, now, remote, up, uuids, tasks>>

\* the puller applies a change of "a", listed in folder "d"
PurgeProcessChange ==
    LET r == process_change(db, Change("a", FALSE,
                     Some(ChangeFile(NameX, Some(<<"d">>), None, FALSE))), now)
    IN  /\ db' = r.db
        /\ hist' = [last |-> [op |-> "change", file_id |-> "a", err |-> r.err]]
        /\ UNCHANGED <<blobs, now, remote, up, uuids, tasks>>

\* a second, or a day, passes; the clock shows second 1 or 2 of a day
Advance ==
    \E step \in {1, DaySeconds} :
        /\ now + step <= MaxDays * DaySeconds + 2
        /\ (now + step) % DaySeconds \in {1, 2}
        /\ now' = now + step
        /\ hist' = [last |-> [op |-> "advance"]]
        /\ UNCHANGED <<db, blobs, remote, up, uuids, tasks>>

Purge ==
    \E grace_days \in GraceDays :
        LET res == purge_expired_tombstones(db, grace_days, now)
        IN  /\ db' = res.db
            /\ hist' = [last |-> [op |-> "purge", grace_days |-> grace_days, t |-> now,
                                  ret |-> res.ret, before |-> db]]
            /\ UNCHANGED <<blobs, now, remote, up, uuids, tasks>>

PurgeNext ==
    \/ PurgeSoftDelete
    \/ PurgeRestore
    \/ PurgeProcessChange
    \/ Advance
    \/ Purge

PurgeSpec == PurgeInit /\ [][PurgeNext]_vars

\* the inodes whose tombstone is older than the cutoff of the last purge
Expired ==
    LET b == hist.last.before
    IN  {i \in DOMAIN b.dentry_deleted :
            b.dentry_deleted[i].deleted_at + hist.last.grace_days * 86400 < hist.last.t}

\* the rows of inode i in Inode, Attributes, SyncState, CacheChunk and
\* TombstoneEntry
RowsOf(d, i) ==
    [inodes |-> IF i \in DOMAIN d.inodes THEN Some(d.inodes[i]) ELSE None,
     attrs |-> IF i \in DOMAIN d.attrs THEN Some(d.attrs[i]) ELSE None,
     sync_state |-> IF i \in DOMAIN d.sync_state THEN Some(d.sync_state[i]) ELSE None,
     chunks |-> {<<k[2], d.file_cache_chunks[k]>> : k \in {c \in DOMAIN d.file_cache_chunks : c[1] = i}},
     tombstone |-> IF i \in DOMAIN d.dentry_deleted THEN Some(d.dentry_deleted[i]) ELSE None]

\* C11: after purge_expired_tombstones(g) returns n, no row of Inode,
\* Attributes, SyncState, CacheChunk or TombstoneEntry remains for an inode
\* whose tombstone had deleted_at < now - g*86400, n is the number of those
\* inodes, and the rows of every other inode are unchanged.
C11_PurgePost ==
    hist.last.op = "purge" =>
        LET b == hist.last.before
        IN  /\ \A i \in Expired :
                  /\ RowsOf(db, i).inodes = None
                  /\ RowsOf(db, i).attrs = None
                  /\ RowsOf(db, i).sync_state = None
                  /\ RowsOf(db, i).chunks = {}
                  /\ RowsOf(db, i).tombstone = None
            /\ hist.last.ret = Cardinality(Expired)
            /\ \A i \in (DOMAIN b.inodes) \ Expired : RowsOf(db, i) = RowsOf(b, i)

\* a purge that removed the file, with its chunk row, and kept the folder,
\* whose tombstone was written exactly at the cutoff
C11_Witness ==
    /\ hist.last.op = "purge"
    /\ hist.last.grace_days = 1
    /\ hist.last.ret = 1
    /\ FileInode \in Expired
    /\ RowsOf(hist.last.before, FileInode).chunks # {}
    /\ DirInode \in DOMAIN db.dentry_deleted
    /\ db.dentry_deleted[DirInode].deleted_at + DaySeconds = hist.last.t

\* the inode numbers in Attributes, DirectoryEntry (parent or child),
\* SyncState and CacheChunk
Referenced(d) ==
    DOMAIN d.attrs \cup {k[1] : k \in DOMAIN d.dentry} \cup {d.dentry[k] : k \in DOMAIN d.dentry}
        \cup DOMAIN d.sync_state \cup {k[1] : k \in DOMAIN d.file_cache_chunks}

-----------------------------------------------------------------------------
(* GocSpec: get_or_create_inode called by tasks that share the pool (the    *)
(* puller, the bootstrap, a FUSE handler).  A call is two statements, the   *)
(* SELECT and the INSERT, each an await point.                              *)

GocTasks == {1, 2}

GocIds == {"a", "q", "zz"}

Idle == [pc |-> "idle"]

\* schema.sql: inodes.gdrive_id is UNIQUE; an INSERT of a remote id that a
\* row already has is refused
gdrive_id_taken(d, gdrive_id) == \E i \in DOMAIN d.inodes : d.inodes[i] = gdrive_id

\* get_or_create_inode, first statement:
\*  SELECT inode FROM inodes WHERE gdrive_id = ?  (fetch_optional)
goc_select(d, gdrive_id) == get_inode_by_gdrive_id(d, gdrive_id)

\* get_or_create_inode, second statement: [err, ret, db]
\*  INSERT INTO inodes (gdrive_id, created_at) VALUES (?, ?); last_insert_rowid()
goc_insert(d, gdrive_id) ==
    IF gdrive_id_taken(d, gdrive_id) THEN [err |-> TRUE, ret |-> 0, db |-> d]
    ELSE [err |-> FALSE, ret |-> NextRowid(d),
          db |-> [d EXCEPT !.inodes = Put(@, NextRowid(d), gdrive_id)]]

GocInit ==
    /\ db = BootDb
    /\ blobs = EmptyMap
    /\ now = 1
    /\ remote = EmptyMap
    /\ up = <<>>
    /\ uuids = 0
    /\ tasks = [t \in GocTasks |-> Idle]
    /\ hist = [last |-> NoCall, assigned |-> {}]

\* a task calls get_or_create_inode(r) and runs the SELECT
GocSelect ==
    \E t \in GocTasks, r \in GocIds :
        /\ tasks[t].pc = "idle"
        /\ tasks' = [tasks EXCEPT ![t] = [pc |-> "selected", gdrive_id |-> r,
                                           existing |-> goc_select(db, r)]]
        /\ hist' = [hist EXCEPT !.last = [op |-> "select", task |-> t]]
        /\ UNCHANGED <<db, blobs, now, remote, up, uuids>>

\* the task returns the inode it found, or runs the INSERT
GocReturn ==
    \E t \in GocTasks :
        /\ tasks[t].pc = "selected"
        /\ LET r == tasks[t].gdrive_id
               res == IF tasks[t].existing # None
                      THEN [err |-> FALSE, ret |-> Unwrap(tasks[t].existing), db |-> db]
                      ELSE goc_insert(db, r)
               inserted == tasks[t].existing = None /\ ~res.err
           IN  /\ db' = res.db
               /\ tasks' = [tasks EXCEPT ![t] = [pc |-> "done", gdrive_id |-> r,
                                                  existing |-> tasks[t].existing,
                                                  err |-> res.err, ret |-> res.ret,
                                                  inserted |-> inserted]]
               /\ hist' = [last |-> [op |-> "return", task |-> t],
                           assigned |-> IF inserted THEN hist.assigned \cup {<<res.ret, r>>}
                                        ELSE hist.assigned]
        /\ UNCHANGED <<blobs, now, remote, up, uuids>>

\* the caller goes on; the task is free for another call
GocNextCall ==
    \E t \in GocTasks :
        /\ tasks[t].pc = "done"
        /\ tasks' = [tasks EXCEPT ![t] = Idle]
        /\ hist' = [hist EXCEPT !.last = [op |-> "next", task |-> t]]
        /\ UNCHANGED <<db, blobs, now, remote, up, uuids>>

GocNext == GocSelect \/ GocReturn \/ GocNextCall

GocSpec == GocInit /\ [][GocNext]_vars

\* the calls that have returned
Returned == {t \in GocTasks : tasks[t].pc = "done"}

\* C16: for any interleaving of get_or_create_inode(r) calls with the same
\* remote id, every call returns the same inode number and exactly one inodes
\* row with that remote id exists afterwards; when r has a row already the
\* call returns its inode without inserting; and an inode number once assigned
\* is never given to another remote id.
C16_GetOrCreateInode ==
    /\ \A t \in Returned :
          /\ ~tasks[t].err
          /\ Cardinality({i \in DOMAIN db.inodes : db.inodes[i] = tasks[t].gdrive_id}) = 1
          /\ db.inodes[tasks[t].ret] = tasks[t].gdrive_id
          /\ tasks[t].existing # None =>
                (tasks[t].ret = Unwrap(tasks[t].existing) /\ ~tasks[t].inserted)
    /\ \A t1, t2 \in Returned :
          tasks[t1].gdrive_id = tasks[t2].gdrive_id => tasks[t1].ret = tasks[t2].ret
    /\ \A a1, a2 \in hist.assigned : a1[1] = a2[1] => a1[2] = a2[2]

-----------------------------------------------------------------------------
(* AtomSpec: soft_delete_by_gdrive_id, restore_by_gdrive_id and             *)
(* purge_expired_tombstones statement by statement.  Every statement is     *)
(* executed on the pool by itself (no transaction is opened), so the store  *)
(* after each statement is what another store user reads and what a crash   *)
(* leaves on disk.                                                          *)

\* soft_delete_by_gdrive_id, statement n of 3 for the inode found: [err, db]
soft_delete_statement(d, inode, t, n) ==
    LET rows == DentryRowsOf(d, inode)
    IN  IF n = 1
        THEN IF Cardinality(rows) > 1 \/ (rows # {} /\ inode \in DOMAIN d.dentry_deleted)
             THEN [err |-> TRUE, db |-> d]
             ELSE IF rows = {} THEN [err |-> FALSE, db |-> d]
             ELSE LET k == CHOOSE k \in rows : TRUE
                  IN [err |-> FALSE,
                      db |-> [d EXCEPT !.dentry_deleted = Put(@, inode,
                                [parent_inode |-> k[1], name |-> k[2], deleted_at |-> t])]]
        ELSE IF n = 2
        THEN [err |-> FALSE, db |-> [d EXCEPT !.dentry = Del(@, rows)]]
        ELSE [err |-> FALSE,
              db |-> IF inode \in DOMAIN d.sync_state
                     THEN [d EXCEPT !.sync_state[inode].deleted_at = Some(t),
                                    !.sync_state[inode].dirty = 1]
                     ELSE [d EXCEPT !.sync_state = Put(@, inode, NewSyncState(1, Some(t), None))]]

\* restore_by_gdrive_id, statement n of 3 for the inode found: [err, db]
restore_statement(d, inode, n) ==
    IF n = 1
    THEN IF inode \notin DOMAIN d.dentry_deleted THEN [err |-> FALSE, db |-> d]
         ELSE LET t == d.dentry_deleted[inode]
              IN  IF ~dentry_foreign_keys_hold(d, t.parent_inode, inode)
                  THEN [err |-> TRUE, db |-> d]
                  ELSE [err |-> FALSE,
                        db |-> [d EXCEPT !.dentry = Put(@, <<t.parent_inode, t.name>>, inode)]]
    ELSE IF n = 2
    THEN [err |-> FALSE, db |-> [d EXCEPT !.dentry_deleted = Del(@, {inode})]]
    ELSE [err |-> FALSE,
          db |-> IF inode \in DOMAIN d.sync_state
                 THEN [d EXCEPT !.sync_state[inode].deleted_at = None]
                 ELSE d]

\* purge_expired_tombstones, DELETE statement n of 4 for one inode: [err, db]
purge_statement(d, inode, n) ==
    [err |-> FALSE,
     db |-> IF n = 1 THEN [d EXCEPT !.dentry_deleted = Del(@, {inode})]
            ELSE IF n = 2 THEN [d EXCEPT !.sync_state = Del(@, {inode})]
            ELSE IF n = 3 THEN [d EXCEPT !.attrs = Del(@, {inode})]
            ELSE delete_inode_row(d, inode)]

\* the statement a call in flight runs next, on the store as it is now
NextStatement(d, c) ==
    IF c.pc = "soft_delete" THEN soft_delete_statement(d, c.inode, c.t, c.at)
    ELSE IF c.pc = "restore" THEN restore_statement(d, c.inode, c.at)
    ELSE purge_statement(d, c.inode, c.at)

\* what the call would leave if it ran as a whole
Whole(d, op, gdrive_id, t) ==
    IF op = "soft_delete" THEN soft_delete_by_gdrive_id(d, gdrive_id, t).db
    ELSE IF op = "restore" THEN restore_by_gdrive_id(d, gdrive_id).db
    ELSE purge_expired_tombstones(d, 0, t).db

AtomInit ==
    /\ db = add_cached_chunk(BootDb, FileInode, 0, 1)
    /\ blobs = EmptyMap
    /\ now = 1
    /\ remote = EmptyMap
    /\ up = <<>>
    /\ uuids = 0
    /\ tasks = [t \in GocTasks |-> Idle]
    /\ hist = [before |-> add_cached_chunk(BootDb, FileInode, 0, 1),
               after |-> add_cached_chunk(BootDb, FileInode, 0, 1)]

\* a task calls soft_delete_by_gdrive_id or restore_by_gdrive_id and finds the
\* inode (get_inode_by_gdrive_id); no other call is in flight
AtomCall ==
    \E t \in GocTasks, op \in {"soft_delete", "restore"}, r \in PurgeIds :
        /\ \A u \in GocTasks : tasks[u] = Idle
        /\ get_inode_by_gdrive_id(db, r) # None
        /\ tasks' = [tasks EXCEPT ![t] = [pc |-> op, t |-> now, at |-> 1, todo |-> {},
                                           inode |-> Unwrap(get_inode_by_gdrive_id(db, r))]]
        /\ hist' = [before |-> db, after |-> Whole(db, op, r, now)]
        /\ UNCHANGED <<db, blobs, now, remote, up, uuids>>

\* the puller calls purge_expired_tombstones(0) and selects the expired
\* tombstones; no other call is in flight
AtomPurgeCall ==
    \E t \in GocTasks :
        LET inodes_to_purge == {i \in DOMAIN db.dentry_deleted :
                                   db.dentry_deleted[i].deleted_at < now}
            first == CHOOSE i \in inodes_to_purge : \A j \in inodes_to_purge : i <= j
        IN  /\ \A u \in GocTasks : tasks[u] = Idle
            /\ inodes_to_purge # {}
            /\ tasks' = [tasks EXCEPT ![t] = [pc |-> "purge", t |-> now, at |-> 1,
                                               todo |-> inodes_to_purge \ {first},
                                               inode |-> first]]
            /\ hist' = [before |-> db, after |-> Whole(db, "purge", "", now)]
            /\ UNCHANGED <<db, blobs, now, remote, up, uuids>>

\* the call in flight runs its next statement, then returns if it failed or
\* if it was the last one
AtomStatement ==
    \E t \in GocTasks :
        /\ tasks[t] # Idle
        /\ LET c == tasks[t]
               res == NextStatement(db, c)
               last == IF c.pc = "purge" THEN 4 ELSE 3
           IN  /\ db' = res.db
               /\ tasks' = [tasks EXCEPT ![t] =
                              IF res.err THEN Idle
                              ELSE IF c.at < last THEN [c EXCEPT !.at = c.at + 1]
                              ELSE IF c.todo # {}
                              THEN LET i == CHOOSE i \in c.todo : \A j \in c.todo : i <= j
                                   IN  [c EXCEPT !.at = 1, !.inode = i, !.todo = @ \ {i}]
                              ELSE Idle]
        /\ UNCHANGED <<blobs, now, remote, up, uuids, hist>>

\* the process is killed (main.rs: ctrl_c) and started again: the call in
\* flight is gone, the database file is as the last statement left it
AtomCrash ==
    /\ \E t \in GocTasks : tasks[t] # Idle
    /\ tasks' = [t \in GocTasks |-> Idle]
    /\ UNCHANGED <<db, blobs, now, remote, up, uuids, hist>>

AtomNext == AtomCall \/ AtomPurgeCall \/ AtomStatement \/ AtomCrash \/ Tick

AtomSpec == AtomInit /\ [][AtomNext]_vars

\* C17: soft_delete, restore and purge_expired_tombstones are atomic: whatever
\* another store user reads while the call runs, and whatever a crash leaves,
\* is the store before the call or the store after the whole call, never a
\* store with only part of the call's row changes.
C17_StoreCallsAtomic == db = hist.before \/ db = hist.after

-----------------------------------------------------------------------------
(* PrefSpec: the prefetch that open spawns for a multimedia file and the    *)
(* ensure_range_cached calls of read, await point by await point, on the    *)
(* same inode with the remote content unchanged.                            *)

ImageMime == "image/png"

\* mime_type.starts_with("audio/") || starts_with("video/") || starts_with("image/")
is_multimedia_file(mime_type) == mime_type \in {ImageMime}

SMALL_FILE_THRESHOLD == 10 * 1024 * 1024

SINGLE_DOWNLOAD_THRESHOLD == 5 * 1024 * 1024

\* GDriveFS::open: the background task it spawns for the inode
open_spawns(d, bl, inode) ==
    IF inode \notin DOMAIN d.attrs \/ inode \notin DOMAIN d.inodes THEN "none"
    ELSE
    LET attrs == d.attrs[inode]
        file_size == attrs.size
        gdrive_id == d.inodes[inode]
        \* !cache_path.exists() || metadata(&cache_path).len() != file_size
        incomplete == gdrive_id \notin DOMAIN bl \/ Len(bl[gdrive_id]) # file_size
    IN  IF attrs.mime_type = None \/ attrs.is_dir THEN "none"
        ELSE IF ~is_multimedia_file(Unwrap(attrs.mime_type)) THEN "none"
        ELSE IF file_size > 0 /\ file_size < SMALL_FILE_THRESHOLD
        THEN IF incomplete THEN "prefetch_entire_file" ELSE "none"
        ELSE IF file_size >= SMALL_FILE_THRESHOLD
        THEN IF incomplete THEN "prefetch_headers_and_tail" ELSE "none"
        ELSE "none"

PrefInit ==
    /\ db = [BootDb EXCEPT !.attrs[FileInode].mime_type = Some(ImageMime)]
    /\ blobs = EmptyMap
    /\ now = 1
    /\ remote = BootRemote
    /\ up = <<>>
    /\ uuids = 0
    /\ tasks = [t \in GocTasks |-> Idle]
    /\ hist = [last |-> NoCall]

\* open(FileInode) spawns prefetch_entire_file (the file is smaller than
\* SINGLE_DOWNLOAD_THRESHOLD: one download of the whole file)
PrefOpen ==
    \E t \in GocTasks :
        /\ tasks[t] = Idle
        /\ open_spawns(db, blobs, FileInode) = "prefetch_entire_file"
        /\ db.attrs[FileInode].size < SINGLE_DOWNLOAD_THRESHOLD
        /\ tasks' = [tasks EXCEPT ![t] = [pc |-> "pf_download", data |-> <<>>,
                                           ranges |-> <<>>, k |-> 0]]
        /\ UNCHANGED <<db, blobs, now, remote, up, uuids, hist>>

\* prefetch_entire_file, from one .await to the next
PrefetchStep ==
    \E t \in GocTasks :
        LET c == tasks[t]
            gdrive_id == db.inodes[FileInode]
            file_size == db.attrs[FileInode].size
        IN  \/ \* drive_client.download_chunk(gdrive_id, 0, file_size as u32)
               /\ c.pc = "pf_download"
               /\ tasks' = [tasks EXCEPT ![t] =
                     [c EXCEPT !.pc = "pf_create",
                               !.data = Unwrap(download_chunk(remote, gdrive_id, 0, file_size))]]
               /\ UNCHANGED <<db, blobs, now, remote, up, uuids, hist>>
            \/ \* tokio::fs::File::create(cache_path): the file is truncated
               /\ c.pc = "pf_create"
               /\ blobs' = Put(blobs, gdrive_id, <<>>)
               /\ tasks' = [tasks EXCEPT ![t] = [c EXCEPT !.pc = "pf_write"]]
               /\ UNCHANGED <<db, now, remote, up, uuids, hist>>
            \/ \* file.write_all(&data); file.flush()
               /\ c.pc = "pf_write"
               /\ blobs' = Put(blobs, gdrive_id, WriteAt(blobs[gdrive_id], 0, c.data))
               /\ tasks' = [tasks EXCEPT ![t] = [c EXCEPT !.pc = "pf_chunk"]]
               /\ UNCHANGED <<db, now, remote, up, uuids, hist>>
            \/ \* db.add_cached_chunk(inode, 0, file_size - 1)
               /\ c.pc = "pf_chunk"
               /\ db' = add_cached_chunk(db, FileInode, 0, file_size - 1)
               /\ tasks' = [tasks EXCEPT ![t] = Idle]
               /\ UNCHANGED <<blobs, now, remote, up, uuids, hist>>

\* read(FileInode, offset, size) calls ensure_range_cached, which finds the
\* blob incomplete and some range missing
PrefRead ==
    \E t \in GocTasks, offset \in 0..1, size \in ReadSizes :
        LET gdrive_id == db.inodes[FileInode]
            file_size == db.attrs[FileInode].size
            requested_end == Min2(offset + size - 1, file_size - 1)
            missing_ranges == get_missing_ranges(db, FileInode, offset, requested_end)
        IN  /\ tasks[t] = Idle
            /\ offset < file_size
            /\ ~(gdrive_id \in DOMAIN blobs /\ Len(blobs[gdrive_id]) = file_size)
            /\ missing_ranges # <<>>
            /\ tasks' = [tasks EXCEPT ![t] = [pc |-> "er_exists", data |-> <<>>,
                                               ranges |-> missing_ranges, k |-> 1]]
            /\ UNCHANGED <<db, blobs, now, remote, up, uuids, hist>>

\* ensure_range_cached, from one .await to the next; the download tasks of one
\* call run in the order of their ranges
EnsureStep ==
    \E t \in GocTasks :
        LET c == tasks[t]
            gdrive_id == db.inodes[FileInode]
        IN  \/ \* create_dir_all(parent).await; if !cache_path.exists()
               /\ c.pc = "er_exists"
               /\ tasks' = [tasks EXCEPT ![t] =
                     [c EXCEPT !.pc = IF gdrive_id \in DOMAIN blobs THEN "er_download"
                                      ELSE "er_create"]]
               /\ UNCHANGED <<db, blobs, now, remote, up, uuids, hist>>
            \/ \* tokio::fs::File::create(&cache_path): the file is truncated
               /\ c.pc = "er_create"
               /\ blobs' = Put(blobs, gdrive_id, <<>>)
               /\ tasks' = [tasks EXCEPT ![t] = [c EXCEPT !.pc = "er_download"]]
               /\ UNCHANGED <<db, now, remote, up, uuids, hist>>
            \/ \* drive_client.download_chunk(&gdrive_id, start, chunk_size)
               /\ c.pc = "er_download"
               /\ tasks' = [tasks EXCEPT ![t] =
                     [c EXCEPT !.pc = "er_write",
                               !.data = Unwrap(download_chunk(remote, gdrive_id, c.ranges[c.k][1],
                                               c.ranges[c.k][2] - c.ranges[c.k][1] + 1))]]
               /\ UNCHANGED <<db, blobs, now, remote, up, uuids, hist>>
            \/ \* OpenOptions::new().write(true); seek(Start(start)); write_all(&data)
               /\ c.pc = "er_write"
               /\ blobs' = Put(blobs, gdrive_id, WriteAt(blobs[gdrive_id], c.ranges[c.k][1], c.data))
               /\ tasks' = [tasks EXCEPT ![t] = [c EXCEPT !.pc = "er_chunk"]]
               /\ UNCHANGED <<db, now, remote, up, uuids, hist>>
            \/ \* db.add_cached_chunk(inode, start, end), then the next range
               /\ c.pc = "er_chunk"
               /\ db' = add_cached_chunk(db, FileInode, c.ranges[c.k][1], c.ranges[c.k][2])
               /\ tasks' = [tasks EXCEPT ![t] =
                     IF c.k < Len(c.ranges)
                     THEN [c EXCEPT !.pc = "er_download", !.k = c.k + 1, !.data = <<>>]
                     ELSE Idle]
               /\ UNCHANGED <<blobs, now, remote, up, uuids, hist>>

PrefNext == PrefOpen \/ PrefetchStep \/ PrefRead \/ EnsureStep

PrefSpec == PrefInit /\ [][PrefNext]_vars

\* the offsets of the inode that a file_cache_chunks row covers
ChunkOffsets(d, inode) ==
    UNION {k[2]..d.file_cache_chunks[k] : k \in {c \in DOMAIN d.file_cache_chunks : c[1] = inode}}

\* C18: for any interleaving of a prefetch with ensure_range_cached calls, or
\* of two ensure_range_cached calls, on one inode with unchanged remote
\* content, in every reachable state each offset covered by a chunk row of the
\* inode holds the remote file's byte of that offset in the blob.
C18_ChunksHoldRemoteBytes ==
    LET gdrive_id == db.inodes[FileInode]
        content == Unwrap(remote[gdrive_id].content)
    IN  \A o \in ChunkOffsets(db, FileInode) :
            /\ gdrive_id \in DOMAIN blobs
            /\ o < Len(blobs[gdrive_id])
            /\ blobs[gdrive_id][o + 1] = content[o + 1]

-----------------------------------------------------------------------------
(* DirSpec: readdir and readdirplus over the directories that create,       *)
(* unlink, rename and the puller leave.                                     *)

\* SELECT COUNT(*) FROM dentry WHERE parent_inode = ?
count_children(d, parent_inode) ==
    Cardinality({k \in DOMAIN d.dentry : k[1] = parent_inode})

\* the byte of a character of the names (ORDER BY compares the bytes)
ByteOf(c) ==
    CASE c = "." -> 46 [] c = "d" -> 100 [] c = "t" -> 116 [] c = "x" -> 120 [] c = "y" -> 121

\* ORDER BY d.name: a sorts before b
RECURSIVE NameLess(_, _)
NameLess(a, b) ==
    IF b = <<>> THEN FALSE
    ELSE IF a = <<>> THEN TRUE
    ELSE IF Head(a) # Head(b) THEN ByteOf(Head(a)) < ByteOf(Head(b))
    ELSE NameLess(Tail(a), Tail(b))

\* rows with a `name` field in ORDER BY name
RECURSIVE SortByName(_)
SortByName(rows) ==
    IF rows = {} THEN <<>>
    ELSE LET m == CHOOSE x \in rows : \A y \in rows : y = x \/ NameLess(x.name, y.name)
         IN  <<m>> \o SortByName(rows \ {m})

\* list_children_extended: SELECT d.child_inode, d.name, a.is_dir, a.mime_type,
\*  i.gdrive_id FROM dentry d JOIN attrs a ... JOIN inodes i ...
\*  WHERE d.parent_inode = ? ORDER BY d.name
list_children_extended(d, parent_inode) ==
    SortByName({[inode |-> d.dentry[k], name |-> k[2], is_dir |-> d.attrs[d.dentry[k]].is_dir,
                 mime |-> d.attrs[d.dentry[k]].mime_type, gdrive_id |-> d.inodes[d.dentry[k]]] :
                k \in {r \in DOMAIN d.dentry : /\ r[1] = parent_inode
                                               /\ d.dentry[r] \in DOMAIN d.attrs
                                               /\ d.dentry[r] \in DOMAIN d.inodes}})

\* list_children: SELECT d.child_inode, d.name, a.is_dir FROM dentry d
\*  JOIN attrs a ON d.child_inode = a.inode WHERE d.parent_inode = ? ORDER BY d.name
list_children(d, parent_inode) ==
    SortByName({[inode |-> d.dentry[k], name |-> k[2], is_dir |-> d.attrs[d.dentry[k]].is_dir] :
                k \in {r \in DOMAIN d.dentry : /\ r[1] = parent_inode
                                               /\ d.dentry[r] \in DOMAIN d.attrs}})

\* A readdir that numbers the entries of every call from 1.
readdir_restarts_offsets(d, parent, offset) ==
    LET total_entries == count_children(d, parent) + 2
    IN  IF offset >= total_entries THEN [errno |-> "OK", listed |-> FALSE, entries |-> <<>>]
        ELSE
        LET entries == <<[inode |-> parent, name |-> <<".">>, is_dir |-> TRUE],
                         [inode |-> Max2(1, parent), name |-> <<".", ".">>, is_dir |-> TRUE]>>
                       \o list_children(d, parent)
        IN  [errno |-> "OK", listed |-> TRUE,
             entries |-> [index \in 1..Max2(0, Len(entries) - offset) |->
                            [inode |-> entries[offset + index].inode,
                             name |-> entries[offset + index].name,
                             is_dir |-> entries[offset + index].is_dir,
                             offset |-> index]]]

\* GDriveFS::readdir: [errno, listed, entries]; `listed` says whether the
\* child rows were queried
readdir(d, parent, offset) ==
    LET total_entries == count_children(d, parent) + 2
    IN  IF offset >= total_entries THEN [errno |-> "OK", listed |-> FALSE, entries |-> <<>>]
        ELSE
        LET entries == <<[inode |-> parent, name |-> <<".">>, is_dir |-> TRUE],
                         [inode |-> Max2(1, parent), name |-> <<".", ".">>, is_dir |-> TRUE]>>
                       \o list_children(d, parent)
        IN  \* .skip(offset).enumerate(): offset + index + 1, index from 0
            [errno |-> "OK", listed |-> TRUE,
             entries |-> [index \in 1..Max2(0, Len(entries) - offset) |->
                            [inode |-> entries[offset + index].inode,
                             name |-> entries[offset + index].name,
                             is_dir |-> entries[offset + index].is_dir,
                             offset |-> offset + index]]]

\* GDriveFS::readdirplus: [errno, listed, entries]; each entry carries the
\* size of its attributes
readdirplus(d, parent, offset) ==
    LET total_entries == count_children(d, parent) + 2
    IN  IF offset >= total_entries THEN [errno |-> "OK", listed |-> FALSE, entries |-> <<>>]
        ELSE
        LET final_entries ==
                <<[inode |-> parent, name |-> <<".">>, is_dir |-> TRUE, mime |-> None,
                   gdrive_id |-> None],
                  [inode |-> Max2(1, parent), name |-> <<".", ".">>, is_dir |-> TRUE,
                   mime |-> None, gdrive_id |-> None]>>
                \o [j \in 1..Len(list_children_extended(d, parent)) |->
                      [list_children_extended(d, parent)[j] EXCEPT
                          !.gdrive_id = Some(list_children_extended(d, parent)[j].gdrive_id)]]
            size(x) ==
                IF x.mime # None /\ x.gdrive_id # None /\ is_workspace_file(Unwrap(x.mime))
                THEN Len(generate_desktop_entry(Unwrap(x.gdrive_id), x.name, Unwrap(x.mime)))
                ELSE IF x.inode \in DOMAIN d.attrs THEN d.attrs[x.inode].size
                ELSE IF x.is_dir THEN 4096 ELSE 0
        IN  [errno |-> "OK", listed |-> TRUE,
             entries |-> [index \in 1..Max2(0, Len(final_entries) - offset) |->
                            [inode |-> final_entries[offset + index].inode,
                             name |-> final_entries[offset + index].name,
                             is_dir |-> final_entries[offset + index].is_dir,
                             size |-> size(final_entries[offset + index]),
                             offset |-> offset + index]]]

DirOffsets == 0..(MaxCreates + 4)

Readdir ==
    \E parent \in {RootInode, DirInode}, offset \in DirOffsets :
        /\ hist' = [last |-> [op |-> "readdir", parent |-> parent, offset |-> offset,
                              reply |-> readdir(db, parent, offset)]]
        /\ UNCHANGED <<db, blobs, now, remote, up, uuids, tasks>>

Readdirplus ==
    \E parent \in {RootInode, DirInode}, offset \in DirOffsets :
        /\ hist' = [last |-> [op |-> "readdirplus", parent |-> parent, offset |-> offset,
                              reply |-> readdirplus(db, parent, offset)]]
        /\ UNCHANGED <<db, blobs, now, remote, up, uuids, tasks>>

DirNext == Create \/ Unlink \/ Rename \/ FsProcessChange \/ Readdir \/ Readdirplus

DirSpec == FsInit /\ [][DirNext]_vars

\* the names of the visible children of p
ChildNames(p) == {k[2] : k \in {r \in DOMAIN db.dentry : r[1] = p}}

\* C19: for a directory p with k visible children, readdir(p, offset) and
\* readdirplus(p, offset) emit the entries at positions offset+1 .. k+2 of the
\* list ['.' (inode p), '..' (inode max(1, p)), children sorted by name], the
\* j-th emitted entry has the offset field offset + j, and a call with
\* offset >= k + 2 returns an empty stream without querying the child rows.
C19_ReaddirOffsets ==
    hist.last.op \in {"readdir", "readdirplus"} =>
        LET p == hist.last.parent
            offset == hist.last.offset
            k == Cardinality(ChildNames(p))
            out == hist.last.reply.entries
        IN  /\ hist.last.reply.errno = "OK"
            /\ Len(out) = Max2(0, k + 2 - offset)
            /\ offset >= k + 2 => ~hist.last.reply.listed
            /\ \A j \in 1..Len(out) :
                  /\ out[j].offset = offset + j
                  /\ offset + j = 1 => (out[j].name = <<".">> /\ out[j].inode = p)
                  /\ offset + j = 2 => (out[j].name = <<".", ".">> /\ out[j].inode = Max2(1, p))
                  /\ offset + j > 2 =>
                        /\ out[j].name \in ChildNames(p)
                        /\ out[j].inode = db.dentry[<<p, out[j].name>>]
                        /\ Cardinality({n \in ChildNames(p) : NameLess(n, out[j].name)})
                             = offset + j - 3

\* a call that resumes in the middle of the children of a directory with two
\* of them
C19_Witness ==
    /\ hist.last.op \in {"readdir", "readdirplus"}
    /\ Cardinality(ChildNames(hist.last.parent)) = 2
    /\ hist.last.offset = 3
    /\ Len(hist.last.reply.entries) = 1

-----------------------------------------------------------------------------
(* DocSpec: getattr and read on workspace files, folders and plain files,   *)
(* with writes and unlinks in between.                                      *)

\* A getattr that reports attrs.size for every inode.
getattr_reports_attrs_size(d, inode) ==
    IF inode \notin DOMAIN d.attrs THEN [errno |-> "ENOENT", size |-> 0]
    ELSE [errno |-> "OK", size |-> d.attrs[inode].size]

\* GDriveFS::getattr: [errno, size]
getattr(d, inode) ==
    IF inode \notin DOMAIN d.attrs THEN [errno |-> "ENOENT", size |-> 0]
    ELSE
    LET attrs == d.attrs[inode]
    IN  IF attrs.mime_type # None /\ is_workspace_file(Unwrap(attrs.mime_type))
        THEN LET name == get_file_name(d, inode)
                 \* get_gdrive_id(inode).unwrap_or_else(|_| "unknown")
                 gdrive_id == IF inode \in DOMAIN d.inodes THEN d.inodes[inode] ELSE "unknown"
                 desktop_content == generate_desktop_entry(gdrive_id, name, Unwrap(attrs.mime_type))
             IN  [errno |-> "OK", size |-> Len(desktop_content)]
        ELSE [errno |-> "OK", size |-> attrs.size]

\* a read size larger than every shortcut document
MegaByte == 1024 * 1024

DocInodes == {DirInode, FileInode, DocInode}

Getattr ==
    \E inode \in DocInodes :
        LET r == getattr(db, inode)
        IN  /\ hist' = [last |-> [op |-> "getattr", inode |-> inode, errno |-> r.errno,
                                  size |-> r.size]]
            /\ UNCHANGED <<db, blobs, now, remote, up, uuids, tasks>>

\* read(inode, offset, size); the call is recorded with whether it changed
\* the store or the cache directory and whether it needed the remote and the
\* cache for its answer
DocRead ==
    \E inode \in DocInodes, offset \in CachePositions, size \in ReadSizes \cup {MegaByte} :
        LET r == read(db, remote, blobs, inode, offset, size, {})
        IN  /\ db' = r.db
            /\ blobs' = r.blobs
            /\ hist' = [last |-> [op |-> "read", inode |-> inode, offset |-> offset,
                                  size |-> size, errno |-> r.errno, data |-> r.data,
                                  touched |-> (r.db # db \/ r.blobs # blobs),
                                  offline |-> read(db, EmptyMap, EmptyMap, inode, offset,
                                                   size, {}).data]]
            /\ UNCHANGED <<now, remote, up, uuids, tasks>>

DocNext == CacheWrite \/ Unlink \/ DocRead \/ Getattr

DocSpec == CacheInit /\ [][DocNext]_vars

\* the shortcut documents of inode i: one for each name it is visible under,
\* or the one under its fallback name
DocumentsOf(i) ==
    {generate_desktop_entry(db.inodes[i], n, Unwrap(db.attrs[i].mime_type)) :
        n \in IF DentryRowsOf(db, i) = {} THEN {<<"file_", ToString(i)>>}
              ELSE {k[2] : k \in DentryRowsOf(db, i)}}

\* the mime type of inode i starts with application/vnd.google-apps.
IsWorkspace(i) ==
    db.attrs[i].mime_type \in {Some(FolderMime), Some(DocMime)}

\* C20: for an inode with a workspace mime type read(i, offset, size) returns
\* the bytes [offset, min(offset + size, len)) of the shortcut document made of
\* the inode's remote id, name and mime type, getattr(i).size is the length of
\* that document, and neither call contacts the remote or touches the range
\* cache; for every other mime type neither override applies.
C20_ShortcutDocument ==
    /\ hist.last.op = "getattr" =>
          LET i == hist.last.inode
          IN  /\ hist.last.errno = "OK"
              /\ IF IsWorkspace(i)
                 THEN \E doc \in DocumentsOf(i) : hist.last.size = Len(doc)
                 ELSE hist.last.size = db.attrs[i].size
    /\ hist.last.op = "read" =>
          LET i == hist.last.inode
              offset == hist.last.offset
              data == hist.last.data
          IN  IF IsWorkspace(i)
              THEN /\ hist.last.errno = "OK"
                   /\ ~hist.last.touched
                   /\ hist.last.offline = data
                   /\ \E doc \in DocumentsOf(i) :
                         /\ Len(data) = Max2(0, Min2(offset + hist.last.size, Len(doc)) - offset)
                         /\ \A j \in 1..Len(data) : data[j] = doc[offset + j]
              ELSE hist.last.errno = "OK" =>
                     \A j \in 1..Len(data) : data[j] = blobs[db.inodes[i]][offset + j]

\* a read of the whole shortcut document of a workspace file whose attrs.size
\* is not the document's length
C20_Witness ==
    /\ hist.last.op = "read"
    /\ hist.last.inode = DocInode
    /\ hist.last.offset = 0
    /\ hist.last.size = MegaByte
    /\ Len(hist.last.data) = getattr(db, DocInode).size
    /\ Len(hist.last.data) # db.attrs[DocInode].size

-----------------------------------------------------------------------------
(* CacheSpec, reads at and across the end of the file *)

\* C21: for a regular non-workspace file with attrs.size = S, read returns no
\* byte at an offset >= S (a read crossing the end returns the bytes up to S, a
\* read starting at or after S returns nothing, with S = 0 the payload is
\* empty) and no byte range requested from the remote reaches past S - 1.
C21_ReadWithinSize ==
    LET S == db.attrs[FileInode].size
    IN  /\ (hist.last.op = "read" /\ hist.last.inode = FileInode /\ hist.last.errno = "OK") =>
              Len(hist.last.data) <= Max2(0, Min2(hist.last.offset + hist.last.size, S)
                                             - hist.last.offset)
        /\ \A offset \in CachePositions, size \in ReadSizes :
              LET complete == "a" \in DOMAIN blobs /\ Len(blobs["a"]) = S
                  ranges == IF offset >= S \/ S = 0 \/ complete THEN <<>>
                            ELSE get_missing_ranges(db, FileInode, offset,
                                                    Min2(offset + size - 1, S - 1))
              IN  \A k \in 1..Len(ranges) : ranges[k][2] <= S - 1

-----------------------------------------------------------------------------
(* ErrSpec: the error answers of lookup, opendir, unlink and rename.  A     *)
(* name handed over by FUSE is a sequence of characters that may hold a     *)
(* byte that is not UTF-8.                                                  *)

InvalidByte == "0xFF"

BadName == <<"x", InvalidByte>>

\* OsStr::to_str: None when the name is not valid UTF-8
to_str(name) ==
    IF \E k \in 1..Len(name) : name[k] = InvalidByte THEN None ELSE Some(name)

\* A lookup that answers EIO for a missing entry.
fs_lookup_miss_is_eio(d, parent, name, store_fails) ==
    IF to_str(name) = None THEN [errno |-> "EINVAL", inode |-> 0]
    ELSE IF store_fails THEN [errno |-> "EIO", inode |-> 0]
    ELSE IF lookup(d, parent, Unwrap(to_str(name))) = None THEN [errno |-> "EIO", inode |-> 0]
    ELSE IF Unwrap(lookup(d, parent, Unwrap(to_str(name)))) \notin DOMAIN d.attrs
    THEN [errno |-> "EIO", inode |-> 0]
    ELSE [errno |-> "OK", inode |-> Unwrap(lookup(d, parent, Unwrap(to_str(name))))]

\* GDriveFS::lookup: [errno, inode]; `store_fails` says that the query of the
\* store returns an error
fs_lookup(d, parent, name, store_fails) ==
    IF to_str(name) = None THEN [errno |-> "EINVAL", inode |-> 0]
    ELSE IF store_fails THEN [errno |-> "EIO", inode |-> 0]
    ELSE IF lookup(d, parent, Unwrap(to_str(name))) = None THEN [errno |-> "ENOENT", inode |-> 0]
    \* get_attrs(inode) fails: EIO
    ELSE IF Unwrap(lookup(d, parent, Unwrap(to_str(name)))) \notin DOMAIN d.attrs
    THEN [errno |-> "EIO", inode |-> 0]
    ELSE [errno |-> "OK", inode |-> Unwrap(lookup(d, parent, Unwrap(to_str(name))))]

\* GDriveFS::opendir: [errno, fh]
opendir(d, inode) ==
    IF inode \notin DOMAIN d.attrs THEN [errno |-> "ENOENT", fh |-> 0]
    ELSE IF ~d.attrs[inode].is_dir THEN [errno |-> "ENOTDIR", fh |-> 0]
    ELSE [errno |-> "OK", fh |-> 0]

Lookup ==
    \E parent \in {RootInode, DirInode}, name \in {NameD, NameX, NameY, BadName},
       store_fails \in BOOLEAN :
        LET r == fs_lookup(db, parent, name, store_fails)
        IN  /\ hist' = [last |-> [op |-> "lookup", parent |-> parent, name |-> name,
                                  store_fails |-> store_fails, errno |-> r.errno,
                                  inode |-> r.inode]]
            /\ UNCHANGED <<db, blobs, now, remote, up, uuids, tasks>>

Opendir ==
    \E inode \in {RootInode, DirInode, FileInode, FileInode + 1, FileInode + 2} :
        LET r == opendir(db, inode)
        IN  /\ hist' = [last |-> [op |-> "opendir", inode |-> inode, errno |-> r.errno,
                                  fh |-> r.fh]]
            /\ UNCHANGED <<db, blobs, now, remote, up, uuids, tasks>>

ErrNext == Create \/ Unlink \/ Rename \/ Lookup \/ Opendir

ErrSpec == FsInit /\ [][ErrNext]_vars

\* C22: lookup answers EINVAL for a name that is not valid UTF-8, ENOENT when
\* no entry (parent, name) exists and EIO when the store query fails; opendir
\* answers ENOTDIR for an existing inode that is not a directory and file
\* handle 0 for a directory; unlink and rename of a missing source entry
\* answer ENOENT; each of these calls leaves the store unchanged.
C22_ErrorCodes ==
    [][LET c == hist'.last
       IN  /\ c.op = "lookup" =>
                 /\ db' = db
                 /\ to_str(c.name) = None => c.errno = "EINVAL"
                 /\ (to_str(c.name) # None /\ c.store_fails) => c.errno = "EIO"
                 /\ (to_str(c.name) # None /\ ~c.store_fails
                        /\ <<c.parent, c.name>> \notin DOMAIN db.dentry) => c.errno = "ENOENT"
           /\ c.op = "opendir" =>
                 /\ db' = db
                 /\ (c.inode \in DOMAIN db.attrs /\ ~db.attrs[c.inode].is_dir)
                        => c.errno = "ENOTDIR"
                 /\ (c.inode \in DOMAIN db.attrs /\ db.attrs[c.inode].is_dir)
                        => (c.errno = "OK" /\ c.fh = 0)
           /\ (c.op \in {"unlink", "rename"} /\ <<c.parent, c.name>> \notin DOMAIN db.dentry) =>
                 (c.errno = "ENOENT" /\ db' = db)
      ]_vars

\* a rename whose source entry is missing, after the entry was unlinked
C22_Witness ==
    /\ hist.last.op = "rename"
    /\ hist.last.errno = "ENOENT"
    /\ hist.last.child = None
    /\ db.dentry_deleted # EmptyMap

-----------------------------------------------------------------------------
(* MigSpec: apply_migrations on the shapes an existing database can have.   *)
(* Here `db` is the schema of the two migrated tables and the rows of       *)
(* dentry_deleted.                                                          *)

MaxRuns == 2        \* number of times the migrations run

LegacyKey == <<"parent_inode", "name">>

ChildKey == <<"child_inode">>

\* rows of dentry_deleted in a legacy database: inode 3 was deleted under two
\* entries
TombRows ==
    {[parent_inode |-> 1, child_inode |-> 3, name |-> NameX, deleted_at |-> 1],
     [parent_inode |-> 2, child_inode |-> 3, name |-> NameY, deleted_at |-> 2],
     [parent_inode |-> 1, child_inode |-> 4, name |-> NameY, deleted_at |-> 1]}

\* the row sets a table with the primary key `key` can hold
UniqueOn(rows, key) ==
    \A r1, r2 \in rows :
        (\A k \in 1..Len(key) : r1[key[k]] = r2[key[k]]) => r1 = r2

\* INSERT OR IGNORE INTO dentry_deleted ... SELECT ... FROM dentry_deleted_old:
\* the row sets that can result, one row for each child_inode, whichever the
\* scan of the old table meets first
IgnoreDuplicates(old_rows) ==
    {kept \in SUBSET old_rows :
        /\ UniqueOn(kept, ChildKey)
        /\ \A r \in old_rows : \E q \in kept : q.child_inode = r.child_inode}

\* Migrations that copy every legacy row into the new table.
apply_migrations_copies_all(s, kept) ==
    LET has_deleted_at == \E k \in 1..Len(s.sync_state_columns) : s.sync_state_columns[k] = "deleted_at"
        s1 == IF has_deleted_at THEN s
              ELSE [s EXCEPT !.sync_state_columns = Append(@, "deleted_at")]
        has_remote_md5 == \E k \in 1..Len(s1.sync_state_columns) : s1.sync_state_columns[k] = "remote_md5"
        s2 == IF has_remote_md5 THEN s1
              ELSE [s1 EXCEPT !.sync_state_columns = Append(@, "remote_md5")]
        s3 == [s2 EXCEPT !.indexes = @ \cup {"idx_sync_deleted"},
                         !.tables = @ \cup {"file_cache_chunks"}]
    IN  IF s3.dentry_deleted_key = LegacyKey
        THEN [s3 EXCEPT !.dentry_deleted_key = ChildKey,
                        !.indexes = @ \cup {"idx_tombstone_deleted_at"}]
        ELSE s3

\* MetadataRepository::apply_migrations; `kept` is what INSERT OR IGNORE keeps
apply_migrations(s, kept) ==
    LET \* 1. PRAGMA table_info(sync_state) ... any(name == "deleted_at")
        has_deleted_at == \E k \in 1..Len(s.sync_state_columns) : s.sync_state_columns[k] = "deleted_at"
        s1 == IF has_deleted_at THEN s
              ELSE [s EXCEPT !.sync_state_columns = Append(@, "deleted_at")]
        \* 2. ... any(name == "remote_md5")
        has_remote_md5 == \E k \in 1..Len(s1.sync_state_columns) : s1.sync_state_columns[k] = "remote_md5"
        s2 == IF has_remote_md5 THEN s1
              ELSE [s1 EXCEPT !.sync_state_columns = Append(@, "remote_md5")]
        \* CREATE INDEX IF NOT EXISTS idx_sync_deleted; 3. CREATE TABLE IF NOT
        \* EXISTS file_cache_chunks
        s3 == [s2 EXCEPT !.indexes = @ \cup {"idx_sync_deleted"},
                         !.tables = @ \cup {"file_cache_chunks"}]
        \* 4. sql.contains("PRIMARY KEY (parent_inode, name)")
        has_old_pk == s3.dentry_deleted_key = LegacyKey
    IN  IF has_old_pk
        THEN \* RENAME TO dentry_deleted_old; CREATE TABLE dentry_deleted;
             \* INSERT OR IGNORE; DROP TABLE dentry_deleted_old; CREATE INDEX
             [s3 EXCEPT !.dentry_deleted_key = ChildKey,
                        !.dentry_deleted = kept,
                        !.indexes = @ \cup {"idx_tombstone_deleted_at"}]
        ELSE s3

\* a database of any earlier version
MigInit ==
    /\ \E cols \in {<<"inode", "dirty", "version">>,
                     <<"inode", "dirty", "version", "deleted_at">>,
                     <<"inode", "dirty", "version", "remote_md5">>,
                     <<"inode", "dirty", "version", "deleted_at", "remote_md5">>},
          tables \in {{"sync_state", "dentry_deleted"},
                      {"sync_state", "dentry_deleted", "file_cache_chunks"}},
          key \in {LegacyKey, ChildKey},
          rows \in SUBSET TombRows :
            /\ UniqueOn(rows, key)
            /\ db = [sync_state_columns |-> cols, tables |-> tables, indexes |-> {},
                     dentry_deleted_key |-> key, dentry_deleted |-> rows]
            /\ hist = [runs |-> 0, before |-> db, first |-> db]
    /\ blobs = EmptyMap
    /\ now = 1
    /\ remote = EmptyMap
    /\ up = <<>>
    /\ uuids = 0
    /\ tasks = EmptyMap

\* MetadataRepository::new on the existing database file
Migrate ==
    \E kept \in IgnoreDuplicates(db.dentry_deleted) :
        /\ hist.runs < MaxRuns
        /\ db' = apply_migrations(db, kept)
        /\ hist' = [runs |-> hist.runs + 1, before |-> db, first |-> hist.first]
        /\ UNCHANGED <<blobs, now, remote, up, uuids, tasks>>

MigNext == Migrate

MigSpec == MigInit /\ [][MigNext]_vars

\* C23: running the migrations a second time changes neither schema nor data,
\* for every starting shape; after migrating a legacy tombstone table
\* dentry_deleted is keyed by child_inode and holds exactly one of the legacy
\* rows for each child_inode that had any.
C23_MigrationsIdempotent ==
    /\ hist.runs >= 2 => db = hist.before
    /\ (hist.runs >= 1 /\ hist.first.dentry_deleted_key = LegacyKey) =>
          /\ db.dentry_deleted_key = ChildKey
          /\ db.dentry_deleted \subseteq hist.first.dentry_deleted
          /\ \A r \in hist.first.dentry_deleted :
                Cardinality({q \in db.dentry_deleted : q.child_inode = r.child_inode}) = 1

\* the second run on a database that had none of the columns, no chunk table
\* and a legacy tombstone table with two rows of one child
C23_Witness ==
    /\ hist.runs = 2
    /\ Len(hist.first.sync_state_columns) = 3
    /\ "file_cache_chunks" \notin hist.first.tables
    /\ hist.first.dentry_deleted_key = LegacyKey
    /\ hist.first.dentry_deleted = TombRows

-----------------------------------------------------------------------------
(* ListSpec: the initial synchronisation (bootstrap.rs) of an empty store   *)
(* over the listings of two files.                                          *)

\* the tables right after schema.sql, before ensure_root_exists
EmptyDb ==
    [ inodes            |-> EmptyMap,
      attrs             |-> EmptyMap,
      dentry            |-> EmptyMap,
      dentry_deleted    |-> EmptyMap,
      sync_state        |-> EmptyMap,
      file_cache_chunks |-> EmptyMap ]

\* INSERT OR IGNORE INTO inodes (inode, gdrive_id, ...) VALUES (1, 'root', ...)
insert_root_inode(d) ==
    IF RootInode \in DOMAIN d.inodes \/ gdrive_id_taken(d, "root") THEN d
    ELSE [d EXCEPT !.inodes = Put(@, RootInode, "root")]

\* INSERT OR IGNORE INTO attrs (inode, size, ..., mode, is_dir, mime_type)
\*   VALUES (1, 4096, ..., 493, 1, 'application/vnd.google-apps.folder')
insert_root_attrs(d) ==
    IF RootInode \in DOMAIN d.attrs THEN d
    ELSE [d EXCEPT !.attrs = Put(@, RootInode, RootAttrs)]

\* bootstrap::ensure_root_exists
ensure_root_exists(d) == insert_root_attrs(insert_root_inode(d))

\* google_drive3::api::File values of list_all_files
ListedFile(id, name, mime_type, parents) ==
    [id |-> id, name |-> name, mime_type |-> mime_type, size |-> 2, parents |-> parents]

\* the listings: a file or folder "a" and a file "b", each with or without id
\* and name; "zz" is a parent that is not listed
Listings ==
    {<<ListedFile(id1, name1, Some(mime1), parents1), ListedFile(id2, name2, Some(PlainMime), parents2)>> :
        id1 \in {None, Some("a")}, name1 \in {None, Some(NameX)},
        mime1 \in {FolderMime, PlainMime},
        parents1 \in {None, Some(<<"root">>), Some(<<"zz">>)},
        id2 \in {None, Some("b")}, name2 \in {None, Some(NameX), Some(NameY)},
        parents2 \in {None, Some(<<"a">>), Some(<<"zz">>), Some(<<"a", "zz">>), Some(<<"zz", "a">>)}}

\* sync_all_metadata, first pass: [db, drive_id_to_inode]
RECURSIVE FirstPass(_, _, _, _)
FirstPass(d, drive_id_to_inode, files, k) ==
    IF k > Len(files) THEN [db |-> d, drive_id_to_inode |-> drive_id_to_inode]
    ELSE LET file == files[k]
         IN  IF file.id = None THEN FirstPass(d, drive_id_to_inode, files, k + 1)
             ELSE LET id == Unwrap(file.id)
                      r == get_or_create_inode(d, id)
                      is_dir == file.mime_type = Some(FolderMime)
                      mode == IF is_dir THEN 493 ELSE 420
                      d1 == upsert_file_metadata(r.db, r.inode, file.size, mode, is_dir, file.mime_type)
                  IN  FirstPass(d1, Put(drive_id_to_inode, id, r.inode), files, k + 1)

\* the loop over file.parents of the second pass
RECURSIVE DentryUnderParents(_, _, _, _, _, _)
DentryUnderParents(d, drive_id_to_inode, parents, k, child_inode, name) ==
    IF k > Len(parents) THEN d
    ELSE LET parent_inode == IF parents[k] \in DOMAIN drive_id_to_inode
                             THEN drive_id_to_inode[parents[k]] ELSE RootInode
         IN  DentryUnderParents(upsert_dentry(d, parent_inode, child_inode, name),
                                drive_id_to_inode, parents, k + 1, child_inode, name)

\* sync_all_metadata, second pass
RECURSIVE SecondPass(_, _, _, _)
SecondPass(d, drive_id_to_inode, files, k) ==
    IF k > Len(files) THEN d
    ELSE LET file == files[k]
         IN  IF file.id = None \/ file.name = None
             THEN SecondPass(d, drive_id_to_inode, files, k + 1)
             ELSE LET child_inode == drive_id_to_inode[Unwrap(file.id)]
                      name == Unwrap(file.name)
                      d1 == IF file.parents = None
                            THEN upsert_dentry(d, RootInode, child_inode, name)
                            ELSE DentryUnderParents(d, drive_id_to_inode, Unwrap(file.parents),
                                                    1, child_inode, name)
                  IN  SecondPass(d1, drive_id_to_inode, files, k + 1)

\* bootstrap::sync_all_metadata
sync_all_metadata(d, files) ==
    LET d0 == ensure_root_exists(d)
        first == FirstPass(d0, ("root" :> RootInode), files, 1)
    IN  SecondPass(first.db, first.drive_id_to_inode, files, 1)

ListInit ==
    /\ db = EmptyDb
    /\ hist \in {[listing |-> files, done |-> FALSE] : files \in Listings}
    /\ blobs = EmptyMap
    /\ now = 1
    /\ remote = EmptyMap
    /\ up = <<>>
    /\ uuids = 0
    /\ tasks = EmptyMap

SyncAllMetadata ==
    /\ ~hist.done
    /\ db' = sync_all_metadata(db, hist.listing)
    /\ hist' = [hist EXCEPT !.done = TRUE]
    /\ UNCHANGED <<blobs, now, remote, up, uuids, tasks>>

ListNext == SyncAllMetadata

ListSpec == ListInit /\ [][ListNext]_vars

\* the ids of the listing
ListedIds(files) == {Unwrap(files[k].id) : k \in {j \in 1..Len(files) : files[j].id # None}}

\* the set of parents of a listed file
ParentsOf(file) ==
    IF file.parents = None THEN {}
    ELSE {Unwrap(file.parents)[k] : k \in 1..Len(Unwrap(file.parents))}

\* no two files of the listing share a parent and a name (two files without
\* parents count as sharing one)
NoSharedParentAndName(files) ==
    \A j, k \in 1..Len(files) :
        (j # k /\ files[j].name # None /\ files[j].name = files[k].name) =>
            /\ ParentsOf(files[j]) \cap ParentsOf(files[k]) = {}
            /\ ParentsOf(files[j]) # {} \/ ParentsOf(files[k]) # {}

\* the inode of the first parent of the file that is listed, or inode 1
ParentInodeOf(d, files, file) ==
    LET parents == IF file.parents = None THEN <<>> ELSE Unwrap(file.parents)
        listed == {k \in 1..Len(parents) : parents[k] \in ListedIds(files)}
    IN  IF listed = {} THEN RootInode
        ELSE Unwrap(get_inode_by_gdrive_id(d, parents[CHOOSE k \in listed : \A j \in listed : k <= j]))

\* C24: after bootstrap on an empty store over a listing in which no two files
\* share a parent and a name, every file with an id has an inode whose attrs
\* have is_dir = (mime is the folder mime) and mode 0o755 or 0o644, and every
\* file with a name is found by lookup under its first listed parent, or under
\* inode 1 when it has no parents or its parent is not listed.
C24_BootstrapTree ==
    (hist.done /\ NoSharedParentAndName(hist.listing)) =>
        \A k \in 1..Len(hist.listing) :
            LET f == hist.listing[k]
            IN  f.id # None =>
                  LET found == get_inode_by_gdrive_id(db, Unwrap(f.id))
                  IN  /\ found # None
                      /\ Unwrap(found) \in DOMAIN db.attrs
                      /\ db.attrs[Unwrap(found)].is_dir = (f.mime_type = Some(FolderMime))
                      /\ db.attrs[Unwrap(found)].mode = (IF f.mime_type = Some(FolderMime) THEN 493 ELSE 420)
                      /\ f.name # None =>
                            lookup(db, ParentInodeOf(db, hist.listing, f), Unwrap(f.name)) = found

-----------------------------------------------------------------------------
(* StatSpec: the status query of the IPC server (ipc/server.rs) on the tree *)
(* that create, unlink, rename and the puller leave.                        *)

Slash == <<"/">>

FileScheme == <<"f", "i", "l", "e", ":", "/", "/">>

\* mount_point.to_string_lossy()
MountPoint == <<"/", "m">>

\* str::starts_with
starts_with(s, prefix) ==
    Len(prefix) <= Len(s) /\ SubSeq(s, 1, Len(prefix)) = prefix

\* str::strip_prefix
strip_prefix(s, prefix) ==
    IF starts_with(s, prefix) THEN Some(SubSeq(s, Len(prefix) + 1, Len(s))) ELSE None

\* str::trim_start_matches('/')
RECURSIVE trim_start_matches(_, _)
trim_start_matches(s, c) ==
    IF s # <<>> /\ s[1] = c THEN trim_start_matches(Tail(s), c) ELSE s

\* relative_path.split('/').filter(|s| !s.is_empty()).collect()
RECURSIVE SplitParts(_, _)
SplitParts(s, part) ==
    IF s = <<>> THEN (IF part = <<>> THEN <<>> ELSE <<part>>)
    ELSE IF s[1] = "/" THEN (IF part = <<>> THEN <<>> ELSE <<part>>) \o SplitParts(Tail(s), <<>>)
    ELSE SplitParts(Tail(s), Append(part, s[1]))

\* resolve_path_to_inode: the loop over the parts
RECURSIVE ResolveParts(_, _, _, _)
ResolveParts(d, parts, k, current_inode) ==
    IF k > Len(parts) THEN Some(current_inode)
    ELSE LET child == lookup(d, current_inode, parts[k])
         IN  IF child = None THEN None
             ELSE ResolveParts(d, parts, k + 1, Unwrap(child))

resolve_path_to_inode(d, relative_path) ==
    ResolveParts(d, SplitParts(relative_path, <<>>), 1, RootInode)

\* SELECT dirty, deleted_at FROM sync_state WHERE inode = ?
get_sync_state(d, inode) ==
    IF inode \in DOMAIN d.sync_state
    THEN IF d.sync_state[inode].deleted_at # None THEN "Pending"
         ELSE IF d.sync_state[inode].dirty = 1 THEN "Pending"
         ELSE "Synced"
    ELSE "Synced"

\* get_file_status
get_file_status(d, mount_point, file_path) ==
    LET path == IF starts_with(file_path, FileScheme)
                THEN Unwrap(strip_prefix(file_path, FileScheme)) ELSE file_path
    IN  IF ~starts_with(path, mount_point) THEN "Unknown"
        ELSE LET relative_path == trim_start_matches(Unwrap(strip_prefix(path, mount_point)), "/")
                 inode == resolve_path_to_inode(d, relative_path)
             IN  IF inode = None THEN "Unknown"
                 ELSE get_sync_state(d, Unwrap(inode))

\* the components joined by '/', each preceded by one
RECURSIVE JoinParts(_)
JoinParts(parts) ==
    IF parts = <<>> THEN <<>> ELSE Slash \o Head(parts) \o JoinParts(Tail(parts))

\* the paths asked about: under the mount point /m (plain and as file:// URI)
\* and outside of it (/md is a sibling directory of the mount point)
StatusPaths ==
    {[text |-> scheme \o MountPoint \o JoinParts(parts), inside |-> TRUE, parts |-> parts] :
        scheme \in {<<>>, FileScheme},
        parts \in {<<>>, <<NameD>>, <<NameY>>, <<NameD, NameX>>, <<NameD, NameY>>}}
    \cup
    {[text |-> dir \o JoinParts(parts), inside |-> FALSE, parts |-> parts] :
        dir \in {<<"/", "m", "d">>, <<"/", "o">>, <<>>},
        parts \in {<<>>, <<NameD>>, <<NameX>>}}

GetFileStatus ==
    \E p \in StatusPaths :
        /\ hist' = [last |-> [op |-> "status", path |-> p, before |-> db,
                              status |-> get_file_status(db, MountPoint, p.text)]]
        /\ UNCHANGED <<db, blobs, now, remote, up, uuids, tasks>>

StatNext == Create \/ Unlink \/ Rename \/ FsProcessChange \/ GetFileStatus

StatSpec == FsInit /\ [][StatNext]_vars

\* the inode the components lead to by lookup from inode 1
RECURSIVE Resolved(_, _)
Resolved(parts, from) ==
    IF parts = <<>> THEN Some(from)
    ELSE IF <<from, Head(parts)>> \in DOMAIN db.dentry
         THEN Resolved(Tail(parts), db.dentry[<<from, Head(parts)>>])
         ELSE None

\* C25: the status query answers Unknown when the path is outside the mount
\* point or a component does not resolve by lookup from inode 1; otherwise
\* Pending when the inode's sync_state row has dirty = 1 or a deleted_at, and
\* Synced when there is no row or dirty = 0 without deleted_at; it changes no
\* stored state.
C25_StatusQuery ==
    hist.last.op = "status" =>
        LET p == hist.last.path
            inode == Resolved(p.parts, RootInode)
        IN  /\ db = hist.last.before
            /\ hist.last.status =
                  (IF ~p.inside \/ inode = None THEN "Unknown"
                   ELSE IF /\ Unwrap(inode) \in DOMAIN db.sync_state
                           /\ \/ db.sync_state[Unwrap(inode)].dirty = 1
                              \/ db.sync_state[Unwrap(inode)].deleted_at # None
                        THEN "Pending"
                        ELSE "Synced")

-----------------------------------------------------------------------------
(* PullSpec: the puller's process_change between local unlink and rename.   *)

\* the changes of file "a" of FsChanges, a change with an md5Checksum and one
\* with another size
PullChanges ==
    FsChanges \cup
    { Change("a", FALSE, Some(ChangeFile(NameX, Some(<<"d">>), Some(Md5(<<"9">>)), FALSE))),
      Change("a", FALSE, Some([ChangeFile(NameY, Some(<<"d">>), None, FALSE) EXCEPT !.size = 1])) }

\* sync_once: for change in changes { self.process_change(change) }
PullChange ==
    \E change \in PullChanges :
        LET r == process_change(db, change, now)
        IN  /\ db' = r.db
            /\ hist' = [last |-> [op |-> "pull", change |-> change, err |-> r.err]]
            /\ UNCHANGED <<blobs, now, remote, up, uuids, tasks>>

PullNext == Unlink \/ Rename \/ PullChange

PullSpec == FsInit /\ [][PullNext]_vars

\* the change deletes: removed = true or file.trashed = true
Deletes(change) == change.removed \/ (change.file # None /\ Unwrap(change.file).trashed)

\* the inodes the change names as parents
ChangeParents(d, file) ==
    IF file.parents = None THEN {RootInode}
    ELSE {IF Unwrap(file.parents)[k] = "root" THEN RootInode
          ELSE Unwrap(get_inode_by_gdrive_id(d, Unwrap(file.parents)[k])) :
            k \in 1..Len(Unwrap(file.parents))}

\* C26: a change with removed = true or file.trashed = true for a known remote
\* id leaves the inode without an entry that lookup returns and with a
\* tombstone, and upserts no attrs or dentry row; a non-trashed change for a
\* remote id that has a tombstone removes the tombstone (restoring its entry)
\* and leaves the inode visible by lookup with the attributes of the change.
C26_PullerTombstones ==
    [][LET c == hist'.last
       IN  c.op = "pull" =>
             LET id == c.change.file_id
                 known == get_inode_by_gdrive_id(db, id)
             IN  /\ (Deletes(c.change) /\ known # None) =>
                       /\ DentryRowsOf(db', Unwrap(known)) = {}
                       /\ has_tombstone(db', id)
                       /\ db'.attrs = db.attrs
                       /\ \A k \in DOMAIN db'.dentry : k \in DOMAIN db.dentry /\ db'.dentry[k] = db.dentry[k]
                 /\ (~Deletes(c.change) /\ c.change.file # None /\ has_tombstone(db, id)) =>
                       LET file == Unwrap(c.change.file)
                           inode == Unwrap(known)
                           t == db.dentry_deleted[inode]
                       IN  /\ ~has_tombstone(db', id)
                           /\ lookup(db', t.parent_inode, t.name) = Some(inode)
                           /\ \A p \in ChangeParents(db', file) : lookup(db', p, file.name) = Some(inode)
                           /\ db'.attrs[inode] = [size |-> file.size, mode |-> 420, is_dir |-> FALSE,
                                                  mime_type |-> file.mime_type]]_vars

\* C27: a change that is neither removed nor trashed never modifies dirty of
\* the inode: a clean row stays clean, an absent row is created clean and only
\* when the change carries an md5 (which becomes remote_md5), and a dirty inode
\* stays dirty and is selected by the next dirty scan.
C27_PullerKeepsDirty ==
    [][LET c == hist'.last
       IN  (c.op = "pull" /\ ~c.err /\ ~Deletes(c.change) /\ c.change.file # None) =>
             LET file == Unwrap(c.change.file)
                 inode == Unwrap(get_inode_by_gdrive_id(db', c.change.file_id))
             IN  /\ inode \in DOMAIN db.sync_state =>
                       /\ inode \in DOMAIN db'.sync_state
                       /\ db'.sync_state[inode].dirty = db.sync_state[inode].dirty
                       /\ db.sync_state[inode].dirty = 1 =>
                             \E row \in get_dirty_files(db') : row[1] = inode
                 /\ inode \notin DOMAIN db.sync_state =>
                       IF file.md5_checksum = None THEN inode \notin DOMAIN db'.sync_state
                       ELSE /\ inode \in DOMAIN db'.sync_state
                            /\ db'.sync_state[inode].dirty = 0
                 /\ file.md5_checksum # None =>
                       db'.sync_state[inode].remote_md5 = file.md5_checksum
                 /\ \A i \in DOMAIN db.sync_state \ {inode} :
                       i \in DOMAIN db'.sync_state /\ db'.sync_state[i].dirty = db.sync_state[i].dirty]_vars

\* the puller has overwritten attrs and dentry of an inode that a local rename
\* had made dirty, with a change that carries an md5
C27_Witness ==
    /\ hist.last.op = "pull"
    /\ ~hist.last.err
    /\ hist.last.change.file_id = "a"
    /\ hist.last.change.file # None
    /\ Unwrap(hist.last.change.file).md5_checksum # None
    /\ FileInode \in DOMAIN db.sync_state
    /\ db.sync_state[FileInode].dirty = 1
    /\ db.sync_state[FileInode].deleted_at = None
    /\ db.sync_state[FileInode].remote_md5 = Some(Md5(<<"9">>))

-----------------------------------------------------------------------------
(* TickSpec: the loops of the puller (syncer.rs) and of the uploader        *)
(* (uploader.rs), one step for each awaited call of a tick.  `remote` is    *)
(* the account's files and the number of changes its change log has         *)
(* published; a page token is the number of changes before it.              *)

MAX_BACKOFF_SECS == 300
TOMBSTONE_GRACE_DAYS == 7
PullerInterval == 60
UploaderInterval == 30
SYNC_META_PAGE_TOKEN == "changes_page_token"

MaxFails == 4       \* consecutive failed ticks of a loop

\* A write of sync_meta that keeps the value of an existing key.
set_sync_meta_keeps_value(d, key, value) ==
    IF key \in DOMAIN d.sync_meta THEN d ELSE [d EXCEPT !.sync_meta = Put(@, key, value)]

\* INSERT INTO sync_meta ... ON CONFLICT(key) DO UPDATE SET value
set_sync_meta(d, key, value) == [d EXCEPT !.sync_meta = Put(@, key, value)]

\* SELECT value FROM sync_meta WHERE key = ?
get_sync_meta(d, key) ==
    IF key \in DOMAIN d.sync_meta THEN Some(d.sync_meta[key]) ELSE None

\* the change log of the account: a change without fileId, then the removal
\* of folder d and of file a
Feed ==
    <<[file_id |-> None, removed |-> FALSE, file |-> None],
      [file_id |-> Some("d"), removed |-> TRUE, file |-> None],
      [file_id |-> Some("a"), removed |-> TRUE, file |-> None]>>

\* DriveClient::list_changes: the last page (newStartPageToken) or, when more
\* than one change is pending, a first page with a nextPageToken only
list_changes(published, page_token, last_page) ==
    IF last_page \/ published - page_token <= 1
    THEN [changes |-> SubSeq(Feed, page_token + 1, published), new_start_token |-> Some(published)]
    ELSE [changes |-> SubSeq(Feed, page_token + 1, page_token + 1), new_start_token |-> None]

\* process_change of a change as the API delivers it: change.file_id.context(..)?
process_api_change(d, change, t) ==
    IF change.file_id = None THEN [err |-> TRUE, db |-> d]
    ELSE process_change(d, [change EXCEPT !.file_id = Unwrap(@)], t)

\* A loop that doubles the delay without the upper limit.
next_backoff_unlimited(current_backoff, interval, ok) ==
    IF ok THEN interval ELSE current_backoff * 2

\* spawn: current_backoff after the tick
next_backoff(current_backoff, interval, ok) ==
    IF ok THEN interval ELSE Min2(current_backoff * 2, MAX_BACKOFF_SECS)

\* A puller tick that gives up at the first change that fails.
after_change_stops_at_error(p, err) ==
    IF err THEN [p EXCEPT !.k = Len(p.changes) + 1, !.pc = "set_token"]
    ELSE [p EXCEPT !.k = @ + 1, !.pc = IF p.k + 1 > Len(p.changes) THEN "set_token" ELSE "process"]

\* sync_once: if let Err(e) = self.process_change(change).await { warn }
after_change(p, err) ==
    [p EXCEPT !.k = @ + 1, !.pc = IF p.k + 1 > Len(p.changes) THEN "set_token" ELSE "process"]

PullerIdle(current_backoff) ==
    [pc |-> "sleep", page_token |-> 0, changes |-> <<>>]
        @@ [k |-> 1, new_start_token |-> None, current_backoff |-> current_backoff]

UploaderIdle(current_backoff) == [pc |-> "sleep", current_backoff |-> current_backoff]

NoTick == [result |-> "none", fails |-> 0, batch |-> <<>>, attempted |-> <<>>, errors |-> 0,
           failed_at |-> "none"]

TickInit ==
    /\ db = [sync_meta |-> EmptyMap] @@ BootDb
    /\ blobs = EmptyMap
    /\ now = 1
    /\ remote = [files |-> BootRemote, published |-> 0]
    /\ up = <<>>
    /\ uuids = 0
    /\ tasks = [puller |-> PullerIdle(PullerInterval), uploader |-> UploaderIdle(UploaderInterval)]
    /\ hist = [puller |-> NoTick, uploader |-> NoTick, unsaved |-> None]

\* the account publishes the next change of its log
RemotePublish ==
    /\ remote.published < Len(Feed)
    /\ remote' = [remote EXCEPT !.published = @ + 1]
    /\ UNCHANGED <<db, blobs, now, up, uuids, tasks, hist>>

\* sync_once returns to spawn: match self.sync_once().await, then sleep
PullerReturns(ok, d, h) ==
    /\ ok \/ h.puller.fails < MaxFails
    /\ db' = d
    /\ tasks' = [tasks EXCEPT !.puller =
                    PullerIdle(next_backoff(tasks.puller.current_backoff, PullerInterval, ok))]
    /\ hist' = [h EXCEPT !.puller.result = IF ok THEN "ok" ELSE "err",
                         !.puller.fails = IF ok THEN 0 ELSE @ + 1,
                         !.puller.failed_at = IF ok THEN "none" ELSE tasks.puller.pc]
    /\ UNCHANGED <<blobs, now, remote, up, uuids>>

\* sync_once goes on to its next awaited call
PullerContinues(p, d, h) ==
    /\ db' = d
    /\ tasks' = [tasks EXCEPT !.puller = p]
    /\ hist' = h
    /\ UNCHANGED <<blobs, now, remote, up, uuids>>

\* 1. self.db.get_sync_meta(SYNC_META_PAGE_TOKEN).await?
SyncGetToken ==
    /\ tasks.puller.pc = "sleep"
    /\ LET h == [hist EXCEPT !.puller = [NoTick EXCEPT !.fails = hist.puller.fails]]
           token == get_sync_meta(db, SYNC_META_PAGE_TOKEN)
       IN  \E fail \in BOOLEAN :
            IF fail THEN PullerReturns(FALSE, db, h)
            ELSE IF token = None
            THEN PullerContinues([tasks.puller EXCEPT !.pc = "start"], db, h)
            ELSE PullerContinues([tasks.puller EXCEPT !.pc = "list", !.page_token = Unwrap(token)], db, h)

\* self.client.get_start_page_token().await?
SyncStartToken ==
    /\ tasks.puller.pc = "start"
    /\ \E fail \in BOOLEAN :
            IF fail THEN PullerReturns(FALSE, db, hist)
            ELSE PullerContinues([tasks.puller EXCEPT !.pc = "set_start",
                                                     !.page_token = remote.published], db, hist)

\* self.db.set_sync_meta(SYNC_META_PAGE_TOKEN, &token).await?
SyncSetStartToken ==
    /\ tasks.puller.pc = "set_start"
    /\ \E fail \in BOOLEAN :
            IF fail THEN PullerReturns(FALSE, db, hist)
            ELSE PullerContinues([tasks.puller EXCEPT !.pc = "list"],
                                 set_sync_meta(db, SYNC_META_PAGE_TOKEN, tasks.puller.page_token), hist)

\* 2. self.client.list_changes(&page_token).await?
SyncListChanges ==
    /\ tasks.puller.pc = "list"
    /\ \E fail \in BOOLEAN, last_page \in BOOLEAN :
            LET r == list_changes(remote.published, tasks.puller.page_token, last_page)
                h == [hist EXCEPT !.unsaved = Some(tasks.puller.page_token)]
            IN  IF fail THEN last_page /\ PullerReturns(FALSE, db, h)
                ELSE PullerContinues(
                        [tasks.puller EXCEPT !.pc = IF r.changes = <<>> THEN "set_token" ELSE "process",
                                             !.changes = r.changes, !.k = 1,
                                             !.new_start_token = r.new_start_token],
                        db, [h EXCEPT !.puller.batch = r.changes])

\* 3. for change in changes { self.process_change(change).await }
SyncProcessChange ==
    /\ tasks.puller.pc = "process"
    /\ LET change == tasks.puller.changes[tasks.puller.k]
           r == process_api_change(db, change, now)
       IN  PullerContinues(after_change(tasks.puller, r.err), r.db,
                           [hist EXCEPT !.puller.attempted = Append(@, change),
                                        !.puller.errors = @ + (IF r.err THEN 1 ELSE 0)])

\* 4. if let Some(new_token) = new_start_token { set_sync_meta(..).await? }
SyncSetToken ==
    /\ tasks.puller.pc = "set_token"
    /\ \E fail \in BOOLEAN :
            IF tasks.puller.new_start_token = None
            THEN ~fail /\ PullerContinues([tasks.puller EXCEPT !.pc = "purge"], db, hist)
            ELSE IF fail THEN PullerReturns(FALSE, db, hist)
            ELSE PullerContinues([tasks.puller EXCEPT !.pc = "purge"],
                                 set_sync_meta(db, SYNC_META_PAGE_TOKEN,
                                               Unwrap(tasks.puller.new_start_token)),
                                 [hist EXCEPT !.unsaved = None])

\* 5. self.db.purge_expired_tombstones(TOMBSTONE_GRACE_DAYS).await?
SyncPurge ==
    /\ tasks.puller.pc = "purge"
    /\ \E fail \in BOOLEAN :
            IF fail THEN PullerReturns(FALSE, db, hist)
            ELSE PullerReturns(TRUE, purge_expired_tombstones(db, TOMBSTONE_GRACE_DAYS, now).db, hist)

\* upload_cycle returns to spawn
UploaderReturns(ok, h) ==
    /\ ok \/ h.uploader.fails < MaxFails
    /\ tasks' = [tasks EXCEPT !.uploader =
                    UploaderIdle(next_backoff(tasks.uploader.current_backoff, UploaderInterval, ok))]
    /\ hist' = [h EXCEPT !.uploader.result = IF ok THEN "ok" ELSE "err",
                         !.uploader.fails = IF ok THEN 0 ELSE @ + 1,
                         !.uploader.failed_at = IF ok THEN "none" ELSE tasks.uploader.pc]

\* 1. let dirty_files = self.get_dirty_files().await?
UploadCycleScan ==
    /\ tasks.uploader.pc = "sleep"
    /\ LET h == [hist EXCEPT !.uploader = [NoTick EXCEPT !.fails = hist.uploader.fails]]
           dirty_files == SortByInode(get_dirty_files(db))
       IN  \E fail \in BOOLEAN :
            IF fail THEN UploaderReturns(FALSE, h) /\ up' = <<>>
            ELSE IF dirty_files = <<>> THEN UploaderReturns(TRUE, h) /\ up' = <<>>
            ELSE /\ up' = dirty_files
                 /\ tasks' = [tasks EXCEPT !.uploader.pc = "items"]
                 /\ hist' = [h EXCEPT !.uploader.batch = dirty_files]
    /\ UNCHANGED <<db, blobs, now, remote, uuids>>

\* 2. for (inode, gdrive_id, is_delete) in dirty_files { self.upload_file(..).await }
UploadCycleItem ==
    /\ tasks.uploader.pc = "items"
    /\ \E outcome \in {"ok", "error"} :
        LET item == Head(up)
            r == upload_file(db, remote.files, blobs, item[1], item[2], item[3], now, 0, outcome)
            s == r.steps[Len(r.steps)]
            h == [hist EXCEPT !.uploader.attempted = Append(@, item),
                              !.uploader.errors = @ + (IF r.ok THEN 0 ELSE 1)]
        IN  /\ db' = s.db
            /\ remote' = [remote EXCEPT !.files = s.remote]
            /\ blobs' = s.blobs
            /\ up' = Tail(up)
            /\ IF Tail(up) = <<>> THEN UploaderReturns(TRUE, h)
               ELSE tasks' = tasks /\ hist' = h
    /\ UNCHANGED <<now, uuids>>

\* the process is stopped and started again: both loops start over
TickCrash ==
    /\ tasks.puller.pc # "sleep" \/ tasks.uploader.pc # "sleep"
    /\ tasks' = [puller |-> PullerIdle(PullerInterval), uploader |-> UploaderIdle(UploaderInterval)]
    /\ up' = <<>>
    /\ hist' = [hist EXCEPT !.puller = NoTick, !.uploader = NoTick]
    /\ UNCHANGED <<db, blobs, now, remote, uuids>>

TickNext ==
    \/ RemotePublish
    \/ SyncGetToken
    \/ SyncStartToken
    \/ SyncSetStartToken
    \/ SyncListChanges
    \/ SyncProcessChange
    \/ SyncSetToken
    \/ SyncPurge
    \/ UploadCycleScan
    \/ UploadCycleItem
    \/ TickCrash

TickSpec == TickInit /\ [][TickNext]_vars

\* C28: in a puller tick the stored changes_page_token is overwritten only
\* after every change of the batch has been processed and only with the
\* new_start_token that list_changes returned; when no token is stored the
\* start token is stored before list_changes is called; a failing
\* list_changes leaves the stored token as it is, and after a crash or failure
\* before the token write the next tick requests the same token again.
C28_TokenAfterBatch ==
    [][LET p == tasks.puller
           stored == get_sync_meta(db, SYNC_META_PAGE_TOKEN)
           stored_after == get_sync_meta(db', SYNC_META_PAGE_TOKEN)
       IN  /\ stored_after # stored =>
                 \/ /\ p.pc = "set_start"
                    /\ stored = None
                    /\ stored_after = Some(p.page_token)
                 \/ /\ p.pc = "set_token"
                    /\ hist.puller.attempted = hist.puller.batch
                    /\ p.new_start_token # None
                    /\ stored_after = p.new_start_token
           /\ p.pc = "list" =>
                 /\ stored = Some(p.page_token)
                 /\ tasks'.puller.pc = "sleep" => stored_after = stored
                 /\ hist.unsaved # None => hist.unsaved = Some(p.page_token)
           /\ (p.pc = "set_token" /\ tasks'.puller.pc = "purge") =>
                 stored_after = (IF p.new_start_token # None THEN p.new_start_token ELSE stored)]_vars

\* list_changes is about to be called again with the token of a tick that
\* failed before the token write, while changes are pending
C28_Witness ==
    /\ tasks.puller.pc = "list"
    /\ hist.puller.fails >= 1
    /\ hist.unsaved = Some(tasks.puller.page_token)
    /\ remote.published > tasks.puller.page_token
    /\ get_sync_meta(db, SYNC_META_PAGE_TOKEN) = Some(tasks.puller.page_token)

\* the awaited calls of a tick whose failure ends it
PullerPrimitives == {"sleep", "start", "set_start", "list", "set_token", "purge"}

\* C29: a failing record does not abort the batch and does not trigger
\* backoff: a puller tick that ends well has processed every change of its
\* batch, and an uploader tick every dirty inode of its scan, whatever failed
\* among them, and the loop then sleeps the base interval; a tick fails only
\* when a batch primitive fails.
C29_RecordFailuresSkipped ==
    /\ hist.puller.result = "ok" =>
          /\ hist.puller.attempted = hist.puller.batch
          /\ tasks.puller.pc = "sleep" => tasks.puller.current_backoff = PullerInterval
    /\ hist.puller.result = "err" => hist.puller.failed_at \in PullerPrimitives
    /\ tasks.puller.pc = "set_token" => hist.puller.attempted = hist.puller.batch
    /\ hist.uploader.result = "ok" =>
          /\ hist.uploader.attempted = hist.uploader.batch
          /\ tasks.uploader.pc = "sleep" => tasks.uploader.current_backoff = UploaderInterval
    /\ hist.uploader.result = "err" => hist.uploader.failed_at = "sleep"

\* both ticks ended well after a record failed: the puller's first change of
\* three, and one of the uploader's two dirty inodes
C29_Witness ==
    /\ hist.puller.result = "ok"
    /\ hist.puller.errors >= 1
    /\ Len(hist.puller.batch) = 3
    /\ hist.puller.batch[1].file_id = None
    /\ hist.uploader.result = "ok"
    /\ hist.uploader.errors >= 1
    /\ Len(hist.uploader.batch) = 2

RECURSIVE Pow2(_)
Pow2(k) == IF k = 0 THEN 1 ELSE 2 * Pow2(k - 1)

\* C30: in both loops the sleep after a tick is the base interval (60 s for
\* the puller, 30 s for the uploader) after a successful tick and
\* min(2 x previous delay, 300 s) after a failed one: min(base x 2^k, 300 s)
\* after k consecutive failures, never above 300 s, never below the base.
C30_Backoff ==
    /\ tasks.puller.current_backoff = Min2(PullerInterval * Pow2(hist.puller.fails), MAX_BACKOFF_SECS)
    /\ tasks.uploader.current_backoff = Min2(UploaderInterval * Pow2(hist.uploader.fails), MAX_BACKOFF_SECS)
    /\ tasks.puller.current_backoff >= PullerInterval
    /\ tasks.puller.current_backoff <= 300
    /\ tasks.uploader.current_backoff >= UploaderInterval
    /\ tasks.uploader.current_backoff <= 300
    /\ hist.puller.result = "ok" => hist.puller.fails = 0
    /\ hist.uploader.result = "ok" => hist.uploader.fails = 0

\* the puller sleeps 300 s after its third failure in a row (60 x 8 = 480),
\* the uploader 240 s after its third
C30_Witness ==
    /\ hist.puller.fails = 3
    /\ tasks.puller.current_backoff = 300
    /\ hist.uploader.fails = 3
    /\ tasks.uploader.current_backoff = 240

-----------------------------------------------------------------------------
(* FetchSpec: reads and writes of a 3-byte file whose middle byte is        *)
(* cached, so that a read of the whole file misses two ranges.              *)

FetchContent == <<"7", "8", "9">>

FetchInit ==
    /\ db = [BootDb EXCEPT !.attrs[FileInode].size = 3,
                            !.file_cache_chunks = (<<FileInode, 1>> :> 1)]
    /\ blobs = ("a" :> <<ZeroByte, "8">>)
    /\ now = 1
    /\ remote = [BootRemote EXCEPT !["a"] = RemoteFile(Some(FetchContent))]
    /\ up = <<>>
    /\ uuids = 0
    /\ tasks = EmptyMap
    /\ hist = [last |-> NoCall, fetched |-> {1}, written |-> {}]

\* hist.fetched and hist.written are the offsets downloaded and the offsets
\* written locally so far; the offsets of the ranges whose request succeeded
FetchedBy(calls) ==
    UNION {{c.start + j : j \in 0..(c.size - 1)} : c \in {calls[k] : k \in {n \in 1..Len(calls) : calls[n].ok}}}

\* read(FileInode, offset, size); `failing` are the download tasks that fail
FetchRead ==
    \E offset \in 0..3, size \in 1..3, failing \in SUBSET {1, 2} :
        LET r == read(db, remote, blobs, FileInode, offset, size, failing)
            file_size == db.attrs[FileInode].size
        IN  /\ db' = r.db
            /\ blobs' = r.blobs
            /\ hist' = [last |-> [op |-> "read", offset |-> offset, size |-> size,
                                  errno |-> r.errno, data |-> r.data, calls |-> r.calls,
                                  complete |-> ("a" \in DOMAIN blobs /\ Len(blobs["a"]) = file_size),
                                  missing |-> IF offset >= file_size THEN <<>>
                                              ELSE get_missing_ranges(db, FileInode, offset,
                                                       Min2(offset + size - 1, file_size - 1)),
                                  chunks |-> db.file_cache_chunks],
                        fetched |-> hist.fetched \cup FetchedBy(r.calls),
                        written |-> hist.written]
            /\ UNCHANGED <<now, remote, up, uuids, tasks>>

\* write(FileInode, offset, data) inside the file
FetchWrite ==
    \E offset \in 0..2 :
        LET r == write(db, blobs, FileInode, offset, <<"5">>)
        IN  /\ db' = r.db
            /\ blobs' = r.blobs
            /\ hist' = [last |-> [op |-> "write", offset |-> offset, errno |-> r.errno],
                        fetched |-> hist.fetched,
                        written |-> hist.written \cup {offset}]
            /\ UNCHANGED <<now, remote, up, uuids, tasks>>

FetchNext == FetchRead \/ FetchWrite

FetchSpec == FetchInit /\ [][FetchNext]_vars

-----------------------------------------------------------------------------
(* RootSpec: run_backend (main.rs) from an empty store: is_empty, the       *)
(* initial synchronisation statement by statement, the start of the puller, *)
(* the uploader and the mount, the operations served after that, and the    *)
(* restart of the process after a failure or an exit.                       *)

\* A test that takes a store holding one row for a store to synchronise only
\* when it holds none.
is_empty_without_root(d) == Cardinality(DOMAIN d.inodes) = 0

\* MetadataRepository::is_empty: SELECT COUNT(*) FROM inodes; count <= 1
is_empty(d) == Cardinality(DOMAIN d.inodes) <= 1

\* GDriveFS::setattr with set_attr.size and set_attr.mode: [errno, db, blobs]
setattr(d, bl, inode, size, mode) ==
    LET known == inode \in DOMAIN d.inodes
        gdrive_id == d.inodes[inode]
        \* file.set_len(size), or a new file of `size` zero bytes
        old == IF gdrive_id \in DOMAIN bl THEN bl[gdrive_id] ELSE <<>>
        resized == [k \in 1..Unwrap(size) |-> IF k <= Len(old) THEN old[k] ELSE ZeroByte]
        bl1 == IF size = None THEN bl ELSE Put(bl, gdrive_id, resized)
        d1 == IF size = None THEN d
              ELSE mark_dirty(IF inode \in DOMAIN d.attrs
                              THEN [d EXCEPT !.attrs[inode].size = Unwrap(size)] ELSE d, inode)
        d2 == IF mode # None /\ inode \in DOMAIN d1.attrs
              THEN [d1 EXCEPT !.attrs[inode].mode = Unwrap(mode)] ELSE d1
    IN  IF size # None /\ ~known THEN [errno |-> "ENOENT", db |-> d, blobs |-> bl]
        ELSE [errno |-> IF inode \in DOMAIN d2.attrs \/ inode = RootInode THEN "OK" ELSE "ENOENT",
              db |-> d2, blobs |-> bl1]

\* the answer of list_all_files on the account BootRemote
BootListing ==
    << ListedFile(Some("d"), Some(NameD), Some(FolderMime), Some(<<"root">>)),
       ListedFile(Some("a"), Some(NameX), Some(PlainMime), Some(<<"d">>)) >>

\* the locals of run_backend before db.is_empty()
Started == [pc |-> "is_empty", was_empty |-> FALSE, bootstrap |-> "none",
            drive_id_to_inode |-> EmptyMap, k |-> 1]

RootInit ==
    /\ db = EmptyDb
    /\ blobs = EmptyMap
    /\ now = 1
    /\ remote = BootRemote
    /\ up = <<>>
    /\ uuids = 0
    /\ tasks = Started
    /\ hist = [last |-> NoCall]

\* an awaited call of sync_all_metadata returned Err: run_backend returns it
BootFails ==
    /\ tasks' = [tasks EXCEPT !.pc = "failed", !.bootstrap = "failed"]
    /\ hist' = [last |-> [op |-> "bootstrap", ok |-> FALSE]]
    /\ UNCHANGED <<db, blobs, now, remote, up, uuids>>

\* if db.is_empty().await? { sync_all_metadata(..).await? }
RunIsEmpty ==
    /\ tasks.pc = "is_empty"
    /\ tasks' = [tasks EXCEPT !.pc = IF is_empty(db) THEN "list" ELSE "spawn",
                              !.was_empty = is_empty(db)]
    /\ hist' = [last |-> [op |-> "is_empty", ret |-> is_empty(db)]]
    /\ UNCHANGED <<db, blobs, now, remote, up, uuids>>

\* sync_all_metadata: let files = client.list_all_files().await?
BootListAllFiles ==
    /\ tasks.pc = "list"
    /\ \/ BootFails
       \/ /\ tasks' = [tasks EXCEPT !.pc = "root_inode"]
          /\ hist' = [last |-> [op |-> "list_all_files"]]
          /\ UNCHANGED <<db, blobs, now, remote, up, uuids>>

\* ensure_root_exists: the INSERT into inodes
BootRootInode ==
    /\ tasks.pc = "root_inode"
    /\ \/ BootFails
       \/ /\ db' = insert_root_inode(db)
          /\ tasks' = [tasks EXCEPT !.pc = "root_attrs"]
          /\ hist' = [last |-> [op |-> "root_inode"]]
          /\ UNCHANGED <<blobs, now, remote, up, uuids>>

\* ensure_root_exists: the INSERT into attrs; drive_id_to_inode.insert("root", 1)
BootRootAttrs ==
    /\ tasks.pc = "root_attrs"
    /\ \/ BootFails
       \/ /\ db' = insert_root_attrs(db)
          /\ tasks' = [tasks EXCEPT !.pc = "first", !.k = 1,
                                    !.drive_id_to_inode = ("root" :> RootInode)]
          /\ hist' = [last |-> [op |-> "root_attrs"]]
          /\ UNCHANGED <<blobs, now, remote, up, uuids>>

\* first pass, one file: get_or_create_inode, then upsert_file_metadata, each
\* of which may fail
BootFirstPass ==
    /\ tasks.pc = "first"
    /\ LET one == FirstPass(db, tasks.drive_id_to_inode, SubSeq(BootListing, tasks.k, tasks.k), 1)
           id == Unwrap(BootListing[tasks.k].id)
       IN  \/ BootFails
           \/ /\ db' = get_or_create_inode(db, id).db
              /\ tasks' = [tasks EXCEPT !.pc = "failed", !.bootstrap = "failed"]
              /\ hist' = [last |-> [op |-> "bootstrap", ok |-> FALSE]]
              /\ UNCHANGED <<blobs, now, remote, up, uuids>>
           \/ /\ db' = one.db
              /\ tasks' = [tasks EXCEPT !.drive_id_to_inode = one.drive_id_to_inode,
                                        !.k = IF tasks.k = Len(BootListing) THEN 1 ELSE tasks.k + 1,
                                        !.pc = IF tasks.k = Len(BootListing) THEN "second" ELSE "first"]
              /\ hist' = [last |-> [op |-> "first_pass"]]
              /\ UNCHANGED <<blobs, now, remote, up, uuids>>

\* second pass, one file: the dentry rows under its parents
BootSecondPass ==
    /\ tasks.pc = "second"
    /\ \/ BootFails
       \/ /\ db' = SecondPass(db, tasks.drive_id_to_inode, SubSeq(BootListing, tasks.k, tasks.k), 1)
          /\ tasks' = [tasks EXCEPT !.k = IF tasks.k = Len(BootListing) THEN 1 ELSE tasks.k + 1,
                                    !.pc = IF tasks.k = Len(BootListing) THEN "spawn" ELSE "second",
                                    !.bootstrap = IF tasks.k = Len(BootListing) THEN "ok" ELSE @]
          /\ hist' = [last |-> [op |-> "second_pass"]]
          /\ UNCHANGED <<blobs, now, remote, up, uuids>>

\* syncer.spawn(); uploader.spawn(); ...; mount_with_unprivileged(fs, ..)
RunSpawn ==
    /\ tasks.pc = "spawn"
    /\ tasks' = [tasks EXCEPT !.pc = "running"]
    /\ hist' = [last |-> [op |-> "spawn"]]
    /\ UNCHANGED <<db, blobs, now, remote, up, uuids>>

\* the process ends (an error of run_backend, Ctrl+C, a crash) and is started
\* again on the same store
RunRestart ==
    /\ tasks.pc \in {"failed", "running"}
    /\ tasks' = Started
    /\ up' = <<>>
    /\ hist' = [last |-> [op |-> "restart"]]
    /\ UNCHANGED <<db, blobs, now, remote, uuids>>

\* setattr of the mount point (chmod) and truncate of the file
RootSetattr ==
    /\ tasks.pc = "running"
    /\ \E a \in {<<RootInode, None, Some(448)>>, <<FileInode, Some(1), None>>} :
        LET r == setattr(db, blobs, a[1], a[2], a[3])
        IN  /\ db' = r.db
            /\ blobs' = r.blobs
            /\ hist' = [last |-> [op |-> "setattr", inode |-> a[1], errno |-> r.errno]]
            /\ UNCHANGED <<now, remote, up, uuids, tasks>>

\* the purge at the end of a puller tick, now or after the grace period
RootPurge ==
    /\ tasks.pc = "running"
    /\ \E t \in {now, now + TOMBSTONE_GRACE_DAYS * DaySeconds + 1} :
        LET r == purge_expired_tombstones(db, TOMBSTONE_GRACE_DAYS, t)
        IN  /\ db' = r.db
            /\ hist' = [last |-> [op |-> "purge", ret |-> r.ret]]
            /\ UNCHANGED <<blobs, now, remote, up, uuids, tasks>>

\* the handlers and ticks that run once the tasks are started
RootServe ==
    /\ tasks.pc = "running"
    /\ (Unlink \/ Rename \/ FsProcessChange \/ UploadScan \/ FsUploadItem)

RootNext ==
    \/ RunIsEmpty
    \/ BootListAllFiles
    \/ BootRootInode
    \/ BootRootAttrs
    \/ BootFirstPass
    \/ BootSecondPass
    \/ RunSpawn
    \/ RunRestart
    \/ RootSetattr
    \/ RootPurge
    \/ RootServe

RootSpec == RootInit /\ [][RootNext]_vars

\* C32: inode 1 is reserved for the root.  While the puller, the uploader and
\* the mount run, the inodes row 1 exists with remote id 'root' and directory
\* attributes; at all times no other inode has remote id 'root' and inode 1
\* has no other remote id; a run that found the store empty reaches the tasks
\* only after its bootstrap completed, and a run whose bootstrap failed never
\* starts them.
C32_RootReserved ==
    /\ tasks.pc = "running" =>
          /\ RootInode \in DOMAIN db.inodes
          /\ db.inodes[RootInode] = "root"
          /\ RootInode \in DOMAIN db.attrs
          /\ db.attrs[RootInode].is_dir
          /\ db.attrs[RootInode].mime_type = Some(FolderMime)
    /\ \A i \in DOMAIN db.inodes : db.inodes[i] = "root" <=> i = RootInode
    /\ tasks.pc \in {"spawn", "running"} /\ tasks.was_empty => tasks.bootstrap = "ok"
    /\ tasks.bootstrap = "failed" => tasks.pc = "failed"

\* the tasks run after the bootstrap of the empty store completed; the mount
\* point was chmod-ed and the file was unlinked and purged since
C32_Witness ==
    /\ tasks.pc = "running"
    /\ tasks.was_empty
    /\ tasks.bootstrap = "ok"
    /\ FileInode \notin DOMAIN db.inodes
    /\ db.inodes[RootInode] = "root"
    /\ db.attrs[RootInode].mode = 448

\* C33: every byte a successful read of the regular file returns is the byte
\* downloaded from the remote for its offset or the byte written locally at
\* its offset, never the content of a region of the blob that was neither
\* downloaded nor written.
C33_ReadOnlyKnownBytes ==
    hist.last.op = "read" /\ hist.last.errno = "OK" =>
        \A j \in 1..Len(hist.last.data) :
            LET o == hist.last.offset + j - 1
            IN  \/ o \in hist.fetched /\ hist.last.data[j] = FetchContent[o + 1]
                \/ o \in hist.written /\ hist.last.data[j] = "5"

-----------------------------------------------------------------------------
(* SendSpec: Uploader::update_file and handle_conflict await by await on    *)
(* the file "a", whose blob is complete and whose remote_md5 the puller     *)
(* recorded, interleaved with write, setattr and rename on the same inode   *)
(* and with an edit of the remote content by another party.                 *)

MaxEdits == 2       \* local mutations of each kind and remote edits in a behaviour

\* DriveClient::update_file_content: the media of the file is replaced
update_file_content(rm, file_id, content) ==
    [rm EXCEPT ![file_id].content = Some(content)]

\* the uploader between two ticks
Sleeping == [pc |-> "idle", known_md5 |-> None]

SendInit ==
    /\ db = [BootDb EXCEPT !.sync_state =
                Put(@, FileInode, NewSyncState(0, None, Some(Md5(<<"7", "8">>))))]
    /\ blobs = ("a" :> <<"7", "8">>)
    /\ now = 1
    /\ remote = BootRemote
    /\ up = <<>>
    /\ uuids = 0
    /\ tasks = Sleeping
    /\ hist = [last |-> NoCall, late |-> FALSE, foreign |-> FALSE, edits |-> 0]

\* a local mutation completed: it is late when the uploader has read the blob
\* in this tick and has not yet written dirty = 0
Mutation(op, errno) ==
    [hist EXCEPT !.last = [op |-> op, errno |-> errno],
                 !.late = tasks.pc \in {"refresh", "clear"},
                 !.edits = @ + 1]

SendWrite ==
    /\ hist.edits < MaxEdits
    /\ \E data \in {<<"5">>, <<"6">>} :
        LET r == write(db, blobs, FileInode, 0, data)
        IN  /\ db' = r.db
            /\ blobs' = r.blobs
            /\ hist' = Mutation("write", r.errno)
    /\ UNCHANGED <<now, remote, up, uuids, tasks>>

SendSetattr ==
    /\ hist.edits < MaxEdits
    /\ LET r == setattr(db, blobs, FileInode, Some(1), None)
       IN  /\ db' = r.db
           /\ blobs' = r.blobs
           /\ hist' = Mutation("setattr", r.errno)
    /\ UNCHANGED <<now, remote, up, uuids, tasks>>

SendRename ==
    /\ hist.edits < MaxEdits
    /\ \E name \in {NameX, NameY}, new_name \in {NameX, NameY} :
        LET r == rename(db, DirInode, name, DirInode, new_name, now)
        IN  /\ name # new_name
            /\ r.errno = "OK"
            /\ db' = r.db
            /\ hist' = Mutation("rename", r.errno)
    /\ UNCHANGED <<blobs, now, remote, up, uuids, tasks>>

\* another party replaces the content of the remote file
SendRemoteEdit ==
    /\ remote["a"].content # Some(<<"9">>)
    /\ ~hist.foreign
    /\ remote' = update_file_content(remote, "a", <<"9">>)
    /\ hist' = [hist EXCEPT !.last = [op |-> "remote_edit"], !.foreign = TRUE]
    /\ UNCHANGED <<db, blobs, now, up, uuids, tasks>>

\* upload_file returned: upload_cycle goes on to the next item or ends
SendReturns(ok) ==
    /\ tasks' = Sleeping
    /\ up' = <<>>
    /\ hist' = [hist EXCEPT !.last = [op |-> "upload", ok |-> ok, pc |-> tasks.pc]]

\* upload_cycle: get_dirty_files; upload_file of the file takes update_file
SendScan ==
    /\ tasks.pc = "idle"
    /\ get_dirty_files(db) = {<<FileInode, "a", FALSE>>}
    /\ up' = SortByInode(get_dirty_files(db))
    /\ tasks' = [tasks EXCEPT !.pc = "known"]
    /\ hist' = [hist EXCEPT !.last = [op |-> "scan"], !.late = FALSE]
    /\ UNCHANGED <<db, blobs, now, remote, uuids>>

\* 1. let known_md5 = self.db.get_remote_md5(inode).await?
SendKnownMd5 ==
    /\ tasks.pc = "known"
    /\ \/ SendReturns(FALSE)
       \/ /\ tasks' = [pc |-> "current", known_md5 |-> get_remote_md5(db, Head(up)[1])]
          /\ hist' = [hist EXCEPT !.last = [op |-> "get_remote_md5"]]
          /\ UNCHANGED up
    /\ UNCHANGED <<db, blobs, now, remote, uuids>>

\* 2. - 4. get_file_md5, the comparison, cache_path.exists()
SendCurrentMd5 ==
    /\ tasks.pc = "current"
    /\ LET gdrive_id == Head(up)[2]
           current_remote_md5 == get_file_md5(remote, gdrive_id)
       IN  \/ SendReturns(FALSE)
           \/ IF /\ tasks.known_md5 # None
                 /\ current_remote_md5 # None
                 /\ Unwrap(tasks.known_md5) # Unwrap(current_remote_md5)
              THEN /\ tasks' = [tasks EXCEPT !.pc = "conflict"]
                   /\ hist' = [hist EXCEPT !.last = [op |-> "get_file_md5"]]
                   /\ UNCHANGED up
              ELSE IF gdrive_id \notin DOMAIN blobs
              THEN SendReturns(TRUE)
              ELSE /\ tasks' = [tasks EXCEPT !.pc = "content"]
                   /\ hist' = [hist EXCEPT !.last = [op |-> "get_file_md5"]]
                   /\ UNCHANGED up
    /\ UNCHANGED <<db, blobs, now, remote, uuids>>

\* 5. self.client.update_file_content(gdrive_id, &cache_path).await?
SendContent ==
    /\ tasks.pc = "content"
    /\ \/ SendReturns(FALSE) /\ UNCHANGED remote
       \/ /\ remote' = update_file_content(remote, Head(up)[2], blobs[Head(up)[2]])
          /\ tasks' = [tasks EXCEPT !.pc = "refresh"]
          /\ hist' = [hist EXCEPT !.last = [op |-> "update_file_content"]]
          /\ UNCHANGED up
    /\ UNCHANGED <<db, blobs, now, uuids>>

\* 6. get_file_md5 again and set_remote_md5
SendRefreshMd5 ==
    /\ tasks.pc = "refresh"
    /\ LET new_md5 == get_file_md5(remote, Head(up)[2])
       IN  \/ SendReturns(FALSE) /\ UNCHANGED db
           \/ /\ db' = IF new_md5 # None THEN set_remote_md5(db, Head(up)[1], Unwrap(new_md5))
                        ELSE db
              /\ tasks' = [tasks EXCEPT !.pc = "clear"]
              /\ hist' = [hist EXCEPT !.last = [op |-> "set_remote_md5"], !.foreign = FALSE]
              /\ UNCHANGED up
    /\ UNCHANGED <<blobs, now, remote, uuids>>

\* handle_conflict up to the upload of the conflict copy
SendConflict ==
    /\ tasks.pc = "conflict"
    /\ \E fail \in {0, 2} :
        LET r == handle_conflict(db, remote, blobs, Head(up)[1], Head(up)[2], now, fail, <<>>)
        IN  IF Len(r.steps) = 3
            THEN /\ remote' = r.steps[2].remote
                 /\ tasks' = [tasks EXCEPT !.pc = "clear"]
                 /\ hist' = [hist EXCEPT !.last = [op |-> "conflict_copy",
                                                   foreign |-> hist.foreign,
                                                   known_md5 |-> tasks.known_md5,
                                                   current_remote_md5 |-> get_file_md5(remote, Head(up)[2])]]
                 /\ UNCHANGED up
            ELSE SendReturns(r.ok) /\ UNCHANGED remote
    /\ UNCHANGED <<db, blobs, now, uuids>>

\* UPDATE sync_state SET dirty = 0 WHERE inode = ?
SendClearDirty ==
    /\ tasks.pc = "clear"
    /\ \/ SendReturns(FALSE) /\ UNCHANGED db
       \/ SendReturns(TRUE) /\ db' = clear_dirty(db, Head(up)[1])
    /\ UNCHANGED <<blobs, now, remote, uuids>>

SendNext ==
    \/ SendWrite
    \/ SendSetattr
    \/ SendRename
    \/ SendRemoteEdit
    \/ SendScan
    \/ SendKnownMd5
    \/ SendCurrentMd5
    \/ SendContent
    \/ SendRefreshMd5
    \/ SendConflict
    \/ SendClearDirty

SendSpec == SendInit /\ [][SendNext]_vars

\* C34: no local mutation is lost from the dirty tracking: when an uploader
\* tick has finished, a write, setattr or rename that completed after the
\* uploader read the blob has left the inode with dirty = 1.
C34_LateMutationStaysDirty ==
    tasks.pc = "idle" /\ hist.late =>
        /\ FileInode \in DOMAIN db.sync_state
        /\ db.sync_state[FileInode].dirty = 1

\* C39: the uploader creates a conflict copy only when another party changed
\* the remote content since the md5 the store last recorded.
C39_ConflictOnlyAfterForeignEdit ==
    hist.last.op = "conflict_copy" => hist.last.foreign

-----------------------------------------------------------------------------
(* DrainSpec: the handlers that make an inode dirty and the uploader's      *)
(* cycle, scheduled fairly, on an account whose calls all succeed.          *)

\* write(FileInode, 0, "5"): the file gets a cache blob
DrainWrite ==
    LET r == write(db, blobs, FileInode, 0, <<"5">>)
    IN  /\ db' = r.db
        /\ blobs' = r.blobs
        /\ hist' = [last |-> [op |-> "write", errno |-> r.errno]]
        /\ UNCHANGED <<now, remote, up, uuids, tasks>>

\* truncate of the file to one byte
DrainSetattr ==
    LET r == setattr(db, blobs, FileInode, Some(1), None)
    IN  /\ db' = r.db
        /\ blobs' = r.blobs
        /\ hist' = [last |-> [op |-> "setattr", errno |-> r.errno]]
        /\ UNCHANGED <<now, remote, up, uuids, tasks>>

\* an item of the cycle on an account that answers every call
DrainUploadItem == UploadItemOf({0}, {"ok"}, FALSE)

\* the two names of the folder "d"
DrainSlots == {<<DirInode, NameX>>, <<DirInode, NameY>>}

DrainCreate == CreateIn(DrainSlots)

DrainUnlink == UnlinkIn(DrainSlots)

\* rename of "x.t" to "y" in the folder
DrainRename ==
    LET r == rename(db, DirInode, NameX, DirInode, NameY, now)
    IN  /\ db' = r.db
        /\ hist' = [last |-> [op |-> "rename", errno |-> r.errno]]
        /\ UNCHANGED <<blobs, now, remote, up, uuids, tasks>>

DrainNext ==
    \/ DrainCreate
    \/ DrainUnlink
    \/ DrainRename
    \/ DrainWrite
    \/ DrainSetattr
    \/ UploadScan
    \/ DrainUploadItem

DrainSpec ==
    FsInit /\ [][DrainNext]_vars /\ WF_vars(UploadScan) /\ WF_vars(DrainUploadItem)

\* the inodes of DrainSpec: the folder, the file and the created file
DrainInodes == {DirInode, FileInode, FileInode + 1}

IsDirty(inode) ==
    /\ inode \in DOMAIN db.inodes
    /\ inode \in DOMAIN db.sync_state
    /\ db.sync_state[inode].dirty = 1

\* C35: under a fair uploader and a remote whose calls succeed, every inode
\* with dirty = 1 eventually has dirty = 0 or is purged, whatever made it
\* dirty and whether or not a cache blob exists for its remote id.
C35_DirtyEventuallyClean ==
    \A inode \in DrainInodes : IsDirty(inode) ~> ~IsDirty(inode)

-----------------------------------------------------------------------------
(* FeedSpec: the puller's ticks, scheduled fairly, on an account that       *)
(* answers every call and serves its change log one change per page, with   *)
(* local unlinks and renames in between.                                    *)

\* the puller between two ticks
Waiting == [pc |-> "sleep", page_token |-> 0, changes |-> <<>>, k |-> 1,
            new_start_token |-> None]

FeedInit ==
    /\ db = [sync_meta |-> EmptyMap] @@ BootDb
    /\ blobs = EmptyMap
    /\ now = 1
    /\ remote = [files |-> BootRemote, published |-> 0]
    /\ up = <<>>
    /\ uuids = 0
    /\ tasks = Waiting
    /\ hist = [last |-> NoCall]

\* the account publishes the next change of its log
FeedPublish ==
    /\ remote.published < Len(Feed)
    /\ remote' = [remote EXCEPT !.published = @ + 1]
    /\ hist' = [last |-> [op |-> "publish"]]
    /\ UNCHANGED <<db, blobs, now, up, uuids, tasks>>

\* 1. get_sync_meta; the first time get_start_page_token and set_sync_meta
FeedGetToken ==
    /\ tasks.pc = "sleep"
    /\ LET token == get_sync_meta(db, SYNC_META_PAGE_TOKEN)
       IN  IF token = None
           THEN /\ db' = set_sync_meta(db, SYNC_META_PAGE_TOKEN, remote.published)
                /\ tasks' = [Waiting EXCEPT !.pc = "list", !.page_token = remote.published]
           ELSE /\ db' = db
                /\ tasks' = [Waiting EXCEPT !.pc = "list", !.page_token = Unwrap(token)]
    /\ hist' = [last |-> [op |-> "get_sync_meta"]]
    /\ UNCHANGED <<blobs, now, remote, up, uuids>>

\* 2. list_changes(&page_token): the page at the token; it is the last page
\* when at most one change is pending
FeedListChanges ==
    /\ tasks.pc = "list"
    /\ LET r == list_changes(remote.published, tasks.page_token,
                             remote.published - tasks.page_token <= 1)
       IN  tasks' = [tasks EXCEPT !.pc = IF r.changes = <<>> THEN "set_token" ELSE "process",
                                  !.changes = r.changes, !.k = 1,
                                  !.new_start_token = r.new_start_token]
    /\ hist' = [last |-> [op |-> "list_changes"]]
    /\ UNCHANGED <<db, blobs, now, remote, up, uuids>>

\* 3. for change in changes { self.process_change(change).await }
FeedProcessChange ==
    /\ tasks.pc = "process"
    /\ LET r == process_api_change(db, tasks.changes[tasks.k], now)
       IN  /\ db' = r.db
           /\ tasks' = after_change(tasks, r.err)
           /\ hist' = [last |-> [op |-> "process_change", err |-> r.err]]
    /\ UNCHANGED <<blobs, now, remote, up, uuids>>

\* 4. and 5. set_sync_meta of new_start_token when there is one, then the purge
FeedSetToken ==
    /\ tasks.pc = "set_token"
    /\ LET d1 == IF tasks.new_start_token = None THEN db
                 ELSE set_sync_meta(db, SYNC_META_PAGE_TOKEN, Unwrap(tasks.new_start_token))
       IN  db' = purge_expired_tombstones(d1, TOMBSTONE_GRACE_DAYS, now).db
    /\ tasks' = Waiting
    /\ hist' = [last |-> [op |-> "set_token", saved |-> tasks.new_start_token # None]]
    /\ UNCHANGED <<blobs, now, remote, up, uuids>>

\* a step of the puller's tick
FeedPuller == FeedGetToken \/ FeedListChanges \/ FeedProcessChange \/ FeedSetToken

FeedNext == FeedPublish \/ Unlink \/ Rename \/ FeedPuller

FeedSpec == FeedInit /\ [][FeedNext]_vars /\ WF_vars(FeedPuller)

\* the persisted page token covers the first n changes of the log
TokenPast(n) ==
    /\ get_sync_meta(db, SYNC_META_PAGE_TOKEN) # None
    /\ Unwrap(get_sync_meta(db, SYNC_META_PAGE_TOKEN)) >= n

\* C36: under a fair puller and a remote whose calls succeed, the persisted
\* page token eventually advances past every change the feed has published,
\* also when a list_changes response carries further pages.
C36_TokenAdvances ==
    \A n \in 1..Len(Feed) : (remote.published >= n) ~> TokenPast(n)

-----------------------------------------------------------------------------
(* TrashSpec: local unlinks and renames, the puller's changes of file "a"   *)
(* and the uploader's cycle; hist.local holds the inodes whose current      *)
(* deletion was made by a local handler.                                    *)

TrashInit ==
    /\ db = BootDb
    /\ blobs = EmptyMap
    /\ now = 1
    /\ remote = BootRemote
    /\ up = <<>>
    /\ uuids = 0
    /\ tasks = EmptyMap
    /\ hist = [last |-> NoCall, local |-> {}]

\* unlink(d, name)
TrashUnlink ==
    \E name \in {NameX, NameY} :
        LET r == unlink(db, DirInode, name, now)
            child == lookup(db, DirInode, name)
        IN  /\ db' = r.db
            /\ hist' = [last |-> [op |-> "unlink", errno |-> r.errno],
                        local |-> IF r.errno = "OK" THEN hist.local \cup child ELSE hist.local]
            /\ UNCHANGED <<blobs, now, remote, up, uuids, tasks>>

\* rename(d, name, d, new_name)
TrashRename ==
    \E name \in {NameX, NameY}, new_name \in {NameX, NameY} :
        LET r == rename(db, DirInode, name, DirInode, new_name, now)
        IN  /\ name # new_name
            /\ db' = r.db
            /\ hist' = [hist EXCEPT !.last = [op |-> "rename", errno |-> r.errno]]
            /\ UNCHANGED <<blobs, now, remote, up, uuids, tasks>>

\* sync_once: a change of the feed is processed; a change that restores the
\* file ends its deletion
TrashPull ==
    \E change \in FsChanges :
        LET r == process_change(db, change, now)
            inode == get_inode_by_gdrive_id(db, change.file_id)
        IN  /\ db' = r.db
            /\ hist' = [last |-> [op |-> "pull", change |-> change, err |-> r.err,
                                  inode |-> inode, was_local |-> inode \subseteq hist.local,
                                  was_deleted |-> \E i \in inode : i \in DOMAIN db.sync_state
                                                      /\ db.sync_state[i].deleted_at # None],
                        local |-> IF ~r.err /\ ~Deletes(change) THEN hist.local \ inode
                                  ELSE hist.local]
            /\ UNCHANGED <<blobs, now, remote, up, uuids, tasks>>

\* upload_cycle: get_dirty_files
TrashScan ==
    /\ up = <<>>
    /\ get_dirty_files(db) # {}
    /\ up' = SortByInode(get_dirty_files(db))
    /\ hist' = [hist EXCEPT !.last = [op |-> "scan"]]
    /\ UNCHANGED <<db, blobs, now, remote, uuids, tasks>>

\* upload_cycle: upload_file of one item
TrashUploadItem ==
    /\ up # <<>>
    /\ \E fail \in {0, 1}, outcome \in {"ok", "forbidden", "error"} :
        LET item == Head(up)
            r == upload_file(db, remote, blobs, item[1], item[2], item[3], now, fail, outcome)
            s == r.steps[Len(r.steps)]
        IN  /\ IF item[3] THEN fail = 0 ELSE outcome = "ok"
            /\ r.steps # <<>>
            /\ db' = s.db
            /\ remote' = s.remote
            /\ blobs' = s.blobs
            /\ up' = Tail(up)
            /\ hist' = [last |-> [op |-> "upload", inode |-> item[1], calls |-> s.calls,
                                  was_local |-> item[1] \in hist.local],
                        local |-> IF item[3] /\ r.ok THEN hist.local \ {item[1]} ELSE hist.local]
            /\ UNCHANGED <<now, uuids, tasks>>

\* the purge at the end of a puller tick, now or after the grace period
TrashPurge ==
    \E t \in {now, now + TOMBSTONE_GRACE_DAYS * DaySeconds + 1} :
        LET r == purge_expired_tombstones(db, TOMBSTONE_GRACE_DAYS, t)
        IN  /\ db' = r.db
            /\ hist' = [last |-> [op |-> "purge", ret |-> r.ret, before |-> db],
                        local |-> hist.local \cap DOMAIN r.db.inodes]
            /\ UNCHANGED <<blobs, now, remote, up, uuids, tasks>>

TrashNext ==
    \/ TrashUnlink
    \/ TrashRename
    \/ TrashPull
    \/ TrashScan
    \/ TrashUploadItem
    \/ TrashPurge
    \/ Tick

TrashSpec == TrashInit /\ [][TrashNext]_vars

\* C37: the uploader calls trash_file only for an inode whose deletion was
\* made locally, and a deletion the puller applies from the change feed to an
\* inode that was not deleted locally does not leave it with dirty = 1.
C37_TrashOnlyLocalDeletions ==
    /\ hist.last.op = "upload" =>
          \A k \in 1..Len(hist.last.calls) :
              hist.last.calls[k].call = "trash_file" => hist.last.was_local
    /\ (/\ hist.last.op = "pull"
        /\ Deletes(hist.last.change)
        /\ ~hist.last.err
        /\ ~hist.last.was_local
        /\ ~hist.last.was_deleted)
          => \A i \in hist.last.inode :
                ~(i \in DOMAIN db.sync_state /\ db.sync_state[i].dirty = 1 /\ db.sync_state[i].deleted_at # None)

\* C38: deleted_at of an inode is non-null exactly when the inode has a
\* tombstone row; an inode whose deleted_at is null is not removed by
\* purge_expired_tombstones.
C38_DeletedAtIffTombstone ==
    /\ \A i \in DOMAIN db.inodes :
          (i \in DOMAIN db.sync_state /\ db.sync_state[i].deleted_at # None)
              <=> i \in DOMAIN db.dentry_deleted
    /\ hist.last.op = "purge" =>
          \A i \in DOMAIN hist.last.before.inodes \ DOMAIN db.inodes :
              /\ i \in DOMAIN hist.last.before.sync_state
              /\ hist.last.before.sync_state[i].deleted_at # None

-----------------------------------------------------------------------------
(* BindSpec: Uploader::create_file await by await for a file created        *)
(* locally as "y" in folder "d", interleaved with the puller processing the *)
(* change the account publishes for the uploaded file.                      *)

\* the uploader between two items
Resting == [pc |-> "idle", inode |-> 0, temp_gdrive_id |-> "", real_gdrive_id |-> ""]

BindInit ==
    /\ db = BootDb
    /\ blobs = EmptyMap
    /\ now = 1
    /\ remote = BootRemote
    /\ up = <<>>
    /\ uuids = 0
    /\ tasks = Resting
    /\ hist = [last |-> NoCall]

\* create(d, "y")
BindCreate ==
    /\ uuids < MaxCreates
    /\ uuids < Len(TempNames)
    /\ LET r == create(db, DirInode, NameY, 420, TempNames[uuids + 1])
       IN  /\ db' = r.db
           /\ hist' = [last |-> [op |-> "create", inode |-> r.inode]]
    /\ uuids' = uuids + 1
    /\ UNCHANGED <<blobs, now, remote, up, tasks>>

\* write of one byte to the new file while it waits for its upload
BindWrite ==
    \E inode \in DOMAIN db.inodes \ DOMAIN BootDb.inodes :
        /\ is_temp(db.inodes[inode])
        /\ db.inodes[inode] \notin DOMAIN blobs
        /\ LET r == write(db, blobs, inode, 0, <<"5">>)
           IN  /\ db' = r.db
               /\ blobs' = r.blobs
               /\ hist' = [last |-> [op |-> "write", errno |-> r.errno]]
        /\ UNCHANGED <<now, remote, up, uuids, tasks>>

\* upload_cycle: get_dirty_files; upload_file of a temp_ id takes create_file
BindScan ==
    /\ tasks.pc = "idle"
    /\ \E item \in get_dirty_files(db) :
        /\ is_temp(item[2])
        /\ ~item[3]
        /\ tasks' = [Resting EXCEPT !.pc = "upload", !.inode = item[1], !.temp_gdrive_id = item[2]]
    /\ hist' = [last |-> [op |-> "scan"]]
    /\ UNCHANGED <<db, blobs, now, remote, up, uuids>>

\* create_file up to self.client.upload_file(..).await?
BindUpload ==
    /\ tasks.pc = "upload"
    /\ \E fail \in {0, 1} :
        LET r == create_file(db, remote, blobs, tasks.inode, tasks.temp_gdrive_id, fail)
            s == IF r.ok THEN r.steps[Len(r.steps) - 2] ELSE r.steps[Len(r.steps)]
        IN  /\ r.steps # <<>>
            /\ remote' = s.remote
            /\ blobs' = s.blobs
            /\ tasks' = IF r.ok THEN [tasks EXCEPT !.pc = "update_id",
                                                   !.real_gdrive_id = Unwrap(FreshRemoteId(remote))]
                        ELSE Resting
            /\ hist' = [last |-> [op |-> "upload_file", ok |-> r.ok]]
    /\ UNCHANGED <<db, now, up, uuids>>

\* UPDATE inodes SET gdrive_id = ? WHERE inode = ?: refused when another row
\* has the remote id
BindUpdateId ==
    /\ tasks.pc = "update_id"
    /\ IF gdrive_id_taken(db, tasks.real_gdrive_id)
       THEN /\ db' = db
            /\ tasks' = Resting
            /\ hist' = [last |-> [op |-> "update_id", ok |-> FALSE]]
       ELSE /\ db' = IF tasks.inode \in DOMAIN db.inodes
                     THEN [db EXCEPT !.inodes[tasks.inode] = tasks.real_gdrive_id] ELSE db
            /\ tasks' = [tasks EXCEPT !.pc = "clear"]
            /\ hist' = [last |-> [op |-> "update_id", ok |-> TRUE]]
    /\ UNCHANGED <<blobs, now, remote, up, uuids>>

\* UPDATE sync_state SET dirty = 0 WHERE inode = ?
BindClearDirty ==
    /\ tasks.pc = "clear"
    /\ db' = clear_dirty(db, tasks.inode)
    /\ tasks' = Resting
    /\ hist' = [last |-> [op |-> "clear_dirty"]]
    /\ UNCHANGED <<blobs, now, remote, up, uuids>>

\* the ids of the files the uploader has created on the account
UploadedIds == DOMAIN remote \ DOMAIN BootRemote

\* sync_once: the change of an uploaded file ("y" in "d") is processed
BindPull ==
    \E id \in UploadedIds :
        LET file == [ChangeFile(NameY, Some(<<"d">>), get_file_md5(remote, id), FALSE)
                        EXCEPT !.size = 0, !.mime_type = Some("application/octet-stream")]
            r == process_change(db, Change(id, FALSE, Some(file)), now)
        IN  /\ db' = r.db
            /\ hist' = [last |-> [op |-> "pull", file_id |-> id, err |-> r.err]]
            /\ UNCHANGED <<blobs, now, remote, up, uuids, tasks>>

BindNext ==
    \/ BindCreate
    \/ BindWrite
    \/ BindScan
    \/ BindUpload
    \/ BindUpdateId
    \/ BindClearDirty
    \/ BindPull
    \/ Tick

BindSpec == BindInit /\ [][BindNext]_vars

\* C40: however the uploader's create path and the puller's processing of
\* the new file's change interleave, a locally created file is uploaded to
\* the remote exactly once, and once the uploader rests with nothing dirty
\* the file has exactly one inode bound to the new remote id and exactly one
\* directory entry.
C40_OneInodeOneUpload ==
    /\ Cardinality(UploadedIds) <= uuids
    /\ (tasks.pc = "idle" /\ get_dirty_files(db) = {} /\ UploadedIds # {}) =>
          /\ \A id \in UploadedIds : Cardinality({i \in DOMAIN db.inodes : db.inodes[i] = id}) = 1
          /\ Cardinality(DOMAIN db.inodes \ DOMAIN BootDb.inodes) = Cardinality(UploadedIds)
          /\ Cardinality({k \in DOMAIN db.dentry :
                              db.dentry[k] \notin DOMAIN BootDb.inodes}) = Cardinality(UploadedIds)

=============================================================================
